---------------------------- MODULE Spec2Model ----------------------------
(***************************************************************************)
(* Ghost-replay codec (GhostRecorder), client submission path              *)
(* (GhostManager / FirebaseService) and server-side validation             *)
(* (functions/index.js) of the racing game.                                *)
(*                                                                         *)
(* Numbers.  The program computes on IEEE doubles; the model computes on   *)
(* exact rationals over fixed grids:                                       *)
(*   time      integer milliseconds                                        *)
(*   x, z      integer multiples of 1/PosDen   units                       *)
(*   vx, vz    integer multiples of 1/VelDen   units per second            *)
(*   rotY      integer multiples of 1/RotDen   radians                     *)
(* PosDen = 1000 * VelDen, so position + velocity * milliseconds/1000 is   *)
(* exact on the position grid.  32-bit integer operators of the program    *)
(* (<<, >>, >>>, |, ^, |0) are computed with their 32-bit wrap-around.     *)
(***************************************************************************)
EXTENDS Integers, Sequences, FiniteSets, TLC

(***************************************************************************)
(* Program constants of the codec.                                         *)
(***************************************************************************)
SNAPSHOT_INTERVAL == 50
KEYFRAME_INTERVAL == 1000
POSITION_PRECISION == 100
ROTATION_PRECISION == 1000
\* 'ChipsRacing2024!' as character codes
ENCRYPT_KEY == <<67, 104, 105, 112, 115, 82, 97, 99, 105, 110, 103, 50, 48, 50, 52, 33>>

VelDen == 10 * POSITION_PRECISION
PosDen == 1000 * VelDen
RotDen == 10 * ROTATION_PRECISION

(***************************************************************************)
(* Integer helpers.                                                        *)
(***************************************************************************)
Abs(v) == IF v < 0 THEN -v ELSE v

Two7 == 2^7
Two16 == 2^16
Two30 == 2^30
MaxInt32 == (Two30 - 1) + Two30
MinInt32 == (-MaxInt32) - 1

\* Math.round of the rational n/d (d > 0): floor(n/d + 1/2), ties towards +infinity
Round(n, d) == (2 * n + d) \div (2 * d)

\* low 31 bits of an int32, as a natural number
Low31(v) == IF v >= 0 THEN v ELSE (v + MaxInt32) + 1

\* an int32 from its sign bit and low 31 bits
FromBits(neg, low) == IF neg THEN (low - MaxInt32) - 1 ELSE low

\* bits lo..hi of a | b, for natural numbers below 2^31
RECURSIVE BitOrRange(_, _, _, _)
BitOrRange(a, b, lo, hi) ==
    IF lo = hi
    THEN (IF (a \div 2^lo) % 2 = 1 \/ (b \div 2^lo) % 2 = 1 THEN 2^lo ELSE 0)
    ELSE BitOrRange(a, b, lo, (lo + hi) \div 2)
         + BitOrRange(a, b, ((lo + hi) \div 2) + 1, hi)

BitOrNat(a, b) ==
    IF a = 0 THEN b
    ELSE IF b = 0 THEN a
    ELSE BitOrRange(a, b, 0, 30)

RECURSIVE BitXorNat(_, _)
BitXorNat(a, b) ==
    IF a = 0 THEN b
    ELSE IF b = 0 THEN a
    ELSE (IF a % 2 # b % 2 THEN 1 ELSE 0) + 2 * BitXorNat(a \div 2, b \div 2)

\* a | b on int32
BitOr32(a, b) == FromBits(a < 0 \/ b < 0, BitOrNat(Low31(a), Low31(b)))

\* (b << s) on int32, for 0 <= b < 128; the shift count is taken modulo 32
Shl32(b, s) ==
    LET k == s % 32
    IN  IF k <= 24 THEN b * 2^k
        ELSE LET keep == b % 2^(32 - k)
             IN  IF keep >= 2^(31 - k) THEN ((keep - 2^(32 - k)) * 2^(k - 1)) * 2
                 ELSE (keep * 2^(k - 1)) * 2

\* (v << 1) on int32
Shl1(v) ==
    LET low30 == Low31(v) % Two30
        bit30 == (Low31(v) \div Two30) % 2 = 1
    IN  FromBits(bit30, 2 * low30)

\* (v >>> 1) on int32: the unsigned value halved
Shr1U(v) == IF v >= 0 THEN v \div 2 ELSE (Low31(v) \div 2) + Two30

\* (v >>> 7) on int32
Shr7U(v) == IF v >= 0 THEN v \div Two7 ELSE (Low31(v) \div Two7) + 2^24

\* ~v on int32
BitNot32(v) == IF v = MinInt32 THEN MaxInt32 ELSE (-v) - 1

\* ((hash << 5) - hash + v) | 0 : 31 * hash + v modulo 2^32, v an int32
Wrap32(hi, lo) ==
    LET l == lo % Two16
        h == (hi + (lo \div Two16)) % Two16
    IN  IF h >= 2^15 THEN (h - Two16) * Two16 + l ELSE h * Two16 + l

\* the step with (hash << 5) alone, hash not subtracted
HashStepShift(hash, v) ==
    LET hLo == hash % Two16
        hHi == (hash \div Two16) % Two16
        vLo == v % Two16
        vHi == (v \div Two16) % Two16
    IN  Wrap32(32 * hHi + vHi, 32 * hLo + vLo)

HashStep(hash, v) ==
    LET hLo == hash % Two16
        hHi == (hash \div Two16) % Two16
        vLo == v % Two16
        vHi == (v \div Two16) % Two16
    IN  Wrap32(31 * hHi + vHi, 31 * hLo + vLo)

(***************************************************************************)
(* Sequence helpers.                                                       *)
(***************************************************************************)
Last(q) == q[Len(q)]

\* bytes[pos] of a JavaScript array (0-based); -1 stands for undefined
ByteAt(bytes, pos) == IF pos >= 0 /\ pos < Len(bytes) THEN bytes[pos + 1] ELSE -1

(***************************************************************************)
(* Variable-length integers (GhostRecorder.writeVarInt .. readSignedVarInt)*)
(***************************************************************************)
RECURSIVE VarIntBytes(_)
VarIntBytes(value) ==
    IF value >= 128
    THEN <<(value % 128) + 128>> \o VarIntBytes(value \div Two7)
    ELSE <<value>>

\* the bytes writeVarInt pushes for value: Math.abs first, then 7 bits at a time
writeVarInt(value) ==
    IF value = MinInt32
    THEN <<128>> \o VarIntBytes(2^24)
    ELSE VarIntBytes(Abs(value))

\* zigzag: (value << 1) ^ (value >> 31)
ZigZag(value) == IF value < 0 THEN BitNot32(Shl1(value)) ELSE Shl1(value)

writeSignedVarInt(value) == writeVarInt(ZigZag(value))

\* do { byte = bytes[pos++]; value |= (byte & 0x7F) << shift; shift += 7 } while (byte >= 0x80)
\* a byte read past the end is undefined: it contributes 0 and ends the loop
RECURSIVE ReadVarIntLoop(_, _, _, _)
ReadVarIntLoop(bytes, pos, value, shift) ==
    LET byte == ByteAt(bytes, pos)
        bits == IF byte < 0 THEN 0 ELSE byte % 128
        v2   == BitOr32(value, Shl32(bits, shift))
    IN  IF byte >= 128
        THEN ReadVarIntLoop(bytes, pos + 1, v2, shift + 7)
        ELSE [value |-> v2, pos |-> pos + 1]

readVarInt(bytes, pos) == ReadVarIntLoop(bytes, pos, 0, 0)

\* (zigzag >>> 1) ^ -(zigzag & 1)
UnZigZag(zigzag) ==
    IF zigzag % 2 = 1 THEN BitNot32(Shr1U(zigzag)) ELSE Shr1U(zigzag)

readSignedVarInt(bytes, pos) ==
    LET r == readVarInt(bytes, pos)
    IN  [value |-> UnZigZag(r.value), pos |-> r.pos]

(***************************************************************************)
(* Obfuscation: byte-wise XOR with the repeating key.                      *)
(***************************************************************************)
\* the XOR with the key taken one position further
encryptShifted(data) ==
    [i \in 1..Len(data) |->
        BitXorNat(data[i], ENCRYPT_KEY[(i % Len(ENCRYPT_KEY)) + 1])]

encrypt(data) ==
    [i \in 1..Len(data) |->
        BitXorNat(data[i], ENCRYPT_KEY[((i - 1) % Len(ENCRYPT_KEY)) + 1])]

decrypt(data) == encrypt(data)

(***************************************************************************)
(* Base64 text.  A character is its 6-bit value 0..63; PadChar is '=' and  *)
(* BadChar a character outside the alphabet.                               *)
(***************************************************************************)
PadChar == 64
BadChar == 65

\* btoa: character i of the text, four characters for every three bytes
Btoa(bytes) ==
    LET n == Len(bytes)
        B(j) == IF j <= n THEN bytes[j] ELSE 0
        Char(i) ==
            LET g  == 3 * ((i - 1) \div 4)
                k  == (i - 1) % 4
            IN  IF k = 0 THEN B(g + 1) \div 4
                ELSE IF k = 1 THEN (B(g + 1) % 4) * 16 + B(g + 2) \div 16
                ELSE IF k = 2
                THEN (IF g + 2 > n THEN PadChar
                      ELSE (B(g + 2) % 16) * 4 + B(g + 3) \div 64)
                ELSE (IF g + 3 > n THEN PadChar ELSE B(g + 3) % 64)
    IN  [i \in 1..(4 * ((n + 2) \div 3)) |-> Char(i)]

\* the bytes of a run of alphabet characters; a trailing partial group keeps
\* its whole bytes and drops the left-over bits
SextetsToBytes(cs) ==
    LET Byte(j) ==
            LET g == 4 * ((j - 1) \div 3)
                k == (j - 1) % 3
            IN  IF k = 0 THEN cs[g + 1] * 4 + cs[g + 2] \div 16
                ELSE IF k = 1 THEN (cs[g + 2] % 16) * 16 + cs[g + 3] \div 4
                ELSE (cs[g + 3] % 4) * 64 + cs[g + 4]
    IN  [j \in 1..((Len(cs) * 6) \div 8) |-> Byte(j)]

\* window.atob: throws (ok = FALSE) on a character outside the alphabet, on
\* misplaced padding and on a length of 4k+1; otherwise the decoded bytes
Atob(str) ==
    LET n == Len(str)
        pads == IF n % 4 = 0 /\ n >= 2 /\ str[n] = PadChar
                THEN (IF str[n - 1] = PadChar THEN 2 ELSE 1)
                ELSE 0
        data == SubSeq(str, 1, n - pads)
        ok   == /\ Len(data) % 4 # 1
                /\ \A i \in 1..Len(data) : data[i] < PadChar
    IN  [ok |-> ok, bytes |-> IF ok THEN SextetsToBytes(data) ELSE <<>>]

(***************************************************************************)
(* Snapshots and frames.                                                   *)
(***************************************************************************)
Snap(t, x, z, r, vx, vz) ==
    [time |-> t, x |-> x, z |-> z, rotY |-> r, vx |-> vx, vz |-> vz]

NoSnap == Snap(0, 0, 0, 0, 0, 0)

KeyFrame(snap) == [type |-> "key", snap |-> snap, count |-> 0, deltas |-> <<>>]
RunFrame(n) == [type |-> "run", snap |-> NoSnap, count |-> n, deltas |-> <<>>]
DeltaFrame(ds) == [type |-> "deltas", snap |-> NoSnap, count |-> 0, deltas |-> ds]

\* Math.round(value * POSITION_PRECISION) of a position, a velocity, and
\* Math.round(value * ROTATION_PRECISION) of a heading
QuantPos(x) == Round(x, PosDen \div POSITION_PRECISION)
QuantVel(v) == Round(v, VelDen \div POSITION_PRECISION)
QuantRot(r) == Round(r, RotDen \div ROTATION_PRECISION)

\* q / POSITION_PRECISION and q / ROTATION_PRECISION back on the grids
UnquantPos(q) == q * (PosDen \div POSITION_PRECISION)
UnquantVel(q) == q * (VelDen \div POSITION_PRECISION)
UnquantRot(q) == q * (RotDen \div ROTATION_PRECISION)

\* position + velocity * dt, dt in milliseconds
Predict(p, v, ms) == p + v * ms

(***************************************************************************)
(* GhostRecorder.encode: the frame list.                                   *)
(***************************************************************************)
Residuals(snap, lastFrame) ==
    LET ms == snap.time - lastFrame.time
    IN  [residualX   |-> QuantPos(snap.x - Predict(lastFrame.x, lastFrame.vx, ms)),
         residualZ   |-> QuantPos(snap.z - Predict(lastFrame.z, lastFrame.vz, ms)),
         residualRot |-> QuantRot(snap.rotY - lastFrame.rotY),
         residualVx  |-> QuantVel(snap.vx - lastFrame.vx),
         residualVz  |-> QuantVel(snap.vz - lastFrame.vz)]

\* the test that sends a sample to the run-length counter
ZeroResiduals(d) ==
    /\ d.residualX = 0
    /\ d.residualZ = 0
    /\ Abs(d.residualRot) < 5
    /\ d.residualVx = 0
    /\ d.residualVz = 0

FlushRun(st) ==
    IF st.runLength > 0
    THEN [st EXCEPT !.frames = Append(@, RunFrame(st.runLength)), !.runLength = 0]
    ELSE st

FlushDeltas(st) ==
    IF Len(st.pendingResiduals) > 0
    THEN [st EXCEPT !.frames = Append(@, DeltaFrame(st.pendingResiduals)),
                    !.pendingResiduals = <<>>]
    ELSE st

\* IsKeyframe counting the interval from the previous sample
IsKeyframeSinceLast(i, snap, st) ==
    i = 1 \/ snap.time - st.lastFrame.time >= KEYFRAME_INTERVAL

IsKeyframe(i, snap, st) ==
    i = 1 \/ snap.time - st.lastKeyframe.time >= KEYFRAME_INTERVAL

\* EncodeStep with the pending delta batch left unflushed when a run starts
EncodeStepNoFlush(st, snap, i) ==
    IF IsKeyframe(i, snap, st)
    THEN LET f == FlushDeltas(FlushRun(st))
         IN  [f EXCEPT !.frames = Append(@, KeyFrame(snap)),
                       !.lastKeyframe = snap,
                       !.lastFrame = snap]
    ELSE LET d == Residuals(snap, st.lastFrame)
         IN  IF ZeroResiduals(d)
             THEN [st EXCEPT !.runLength = @ + 1, !.lastFrame = snap]
             ELSE LET f == FlushRun(st)
                  IN  [f EXCEPT !.pendingResiduals = Append(@, d), !.lastFrame = snap]

\* one iteration of the loop over the snapshots (i is 1-based here)
EncodeStep(st, snap, i) ==
    IF IsKeyframe(i, snap, st)
    THEN LET f == FlushDeltas(FlushRun(st))
         IN  [f EXCEPT !.frames = Append(@, KeyFrame(snap)),
                       !.lastKeyframe = snap,
                       !.lastFrame = snap]
    ELSE LET d == Residuals(snap, st.lastFrame)
         IN  IF ZeroResiduals(d)
             THEN LET f == FlushDeltas(st)
                  IN  [f EXCEPT !.runLength = @ + 1, !.lastFrame = snap]
             ELSE LET f == FlushRun(st)
                  IN  [f EXCEPT !.pendingResiduals = Append(@, d), !.lastFrame = snap]

\* the loop's variables before the first iteration; i is the 1-based index
EncodeInit ==
    [i |-> 1, frames |-> <<>>, lastKeyframe |-> NoSnap, lastFrame |-> NoSnap,
     runLength |-> 0, pendingResiduals |-> <<>>]

\* for (let i = 0; i < snapshots.length; i++) { ... }
RECURSIVE EncodeLoop(_, _)
EncodeLoop(snaps, st) ==
    IF st.i > Len(snaps) THEN st
    ELSE EncodeLoop(snaps, [EncodeStep(st, snaps[st.i], st.i) EXCEPT !.i = @ + 1])

EncodeFrames(snaps) == FlushDeltas(FlushRun(EncodeLoop(snaps, EncodeInit))).frames

(***************************************************************************)
(* GhostRecorder.serializeFrames                                           *)
(***************************************************************************)
RECURSIVE SerializeDeltas(_)
SerializeDeltas(ds) ==
    IF Len(ds) = 0 THEN <<>>
    ELSE writeSignedVarInt(ds[1].residualX)
         \o writeSignedVarInt(ds[1].residualZ)
         \o writeSignedVarInt(ds[1].residualRot)
         \o writeSignedVarInt(ds[1].residualVx)
         \o writeSignedVarInt(ds[1].residualVz)
         \o SerializeDeltas(Tail(ds))

SerializeFrame(frame) ==
    IF frame.type = "key"
    THEN <<1>> \o writeVarInt(frame.snap.time)
              \o writeSignedVarInt(QuantPos(frame.snap.x))
              \o writeSignedVarInt(QuantPos(frame.snap.z))
              \o writeSignedVarInt(QuantRot(frame.snap.rotY))
              \o writeSignedVarInt(QuantVel(frame.snap.vx))
              \o writeSignedVarInt(QuantVel(frame.snap.vz))
    ELSE IF frame.type = "run"
    THEN <<2>> \o writeVarInt(frame.count)
    ELSE <<3>> \o writeVarInt(Len(frame.deltas)) \o SerializeDeltas(frame.deltas)

RECURSIVE serializeFrames(_)
serializeFrames(frames) ==
    IF Len(frames) = 0 THEN <<>>
    ELSE SerializeFrame(frames[1]) \o serializeFrames(Tail(frames))

\* encode: '' for no snapshots, else base64 of the obfuscated frame bytes
encode(snaps) ==
    IF Len(snaps) = 0 THEN <<>>
    ELSE Btoa(encrypt(serializeFrames(EncodeFrames(snaps))))

(***************************************************************************)
(* GhostRecorder.decode.  An outcome is [threw, snapshots]: threw is TRUE  *)
(* when the code raises (atob on bad text, a property read off the null    *)
(* lastSnap).                                                              *)
(***************************************************************************)
Returned(snaps) == [threw |-> FALSE, snapshots |-> snaps]
Thrown == [threw |-> TRUE, snapshots |-> <<>>]

\* marker 0x01: six fields read in order
ReadKeyframe(bytes, pos) ==
    LET t  == readVarInt(bytes, pos)
        x  == readSignedVarInt(bytes, t.pos)
        z  == readSignedVarInt(bytes, x.pos)
        r  == readSignedVarInt(bytes, z.pos)
        vx == readSignedVarInt(bytes, r.pos)
        vz == readSignedVarInt(bytes, vx.pos)
    IN  [snap |-> Snap(t.value, UnquantPos(x.value), UnquantPos(z.value),
                       UnquantRot(r.value), UnquantVel(vx.value), UnquantVel(vz.value)),
         pos |-> vz.pos]

\* RunSnap advancing the time by dt (seconds) instead of the interval (ms):
\* the integer time does not move
RunSnapDtSeconds(lastSnap) ==
    Snap(lastSnap.time + SNAPSHOT_INTERVAL \div 1000,
         Predict(lastSnap.x, lastSnap.vx, SNAPSHOT_INTERVAL),
         Predict(lastSnap.z, lastSnap.vz, SNAPSHOT_INTERVAL),
         lastSnap.rotY, lastSnap.vx, lastSnap.vz)

\* RunSnap advancing the time by two intervals
RunSnapTwice(lastSnap) ==
    Snap(lastSnap.time + 2 * SNAPSHOT_INTERVAL,
         Predict(lastSnap.x, lastSnap.vx, SNAPSHOT_INTERVAL),
         Predict(lastSnap.z, lastSnap.vz, SNAPSHOT_INTERVAL),
         lastSnap.rotY, lastSnap.vx, lastSnap.vz)

\* one repetition of a run: the prediction over the nominal interval
RunSnap(lastSnap) ==
    Snap(lastSnap.time + SNAPSHOT_INTERVAL,
         Predict(lastSnap.x, lastSnap.vx, SNAPSHOT_INTERVAL),
         Predict(lastSnap.z, lastSnap.vz, SNAPSHOT_INTERVAL),
         lastSnap.rotY, lastSnap.vx, lastSnap.vz)

\* for (let i = 0; i < count; i++) { newSnap = ...; snapshots.push(newSnap); lastSnap = newSnap }
RECURSIVE ExpandRun(_)
ExpandRun(st) ==
    IF st.i >= st.count THEN st
    ELSE LET newSnap == RunSnap(st.lastSnap)
         IN  ExpandRun([st EXCEPT !.i = @ + 1,
                                  !.lastSnap = newSnap,
                                  !.snapshots = Append(@, newSnap)])

\* one tuple of a delta batch: five residuals read, added to the prediction
ReadDelta(bytes, pos, lastSnap) ==
    LET dx  == readSignedVarInt(bytes, pos)
        dz  == readSignedVarInt(bytes, dx.pos)
        dr  == readSignedVarInt(bytes, dz.pos)
        dvx == readSignedVarInt(bytes, dr.pos)
        dvz == readSignedVarInt(bytes, dvx.pos)
    IN  [snap |-> Snap(lastSnap.time + SNAPSHOT_INTERVAL,
                       Predict(lastSnap.x, lastSnap.vx, SNAPSHOT_INTERVAL)
                           + UnquantPos(dx.value),
                       Predict(lastSnap.z, lastSnap.vz, SNAPSHOT_INTERVAL)
                           + UnquantPos(dz.value),
                       lastSnap.rotY + UnquantRot(dr.value),
                       lastSnap.vx + UnquantVel(dvx.value),
                       lastSnap.vz + UnquantVel(dvz.value)),
         pos |-> dvz.pos]

\* for (let i = 0; i < count; i++) { five residuals; snapshots.push(newSnap); lastSnap = newSnap }
RECURSIVE ExpandDeltas(_, _)
ExpandDeltas(bytes, st) ==
    IF st.i >= st.count THEN st
    ELSE LET d == ReadDelta(bytes, st.pos, st.lastSnap)
         IN  ExpandDeltas(bytes, [st EXCEPT !.i = @ + 1,
                                            !.pos = d.pos,
                                            !.lastSnap = d.snap,
                                            !.snapshots = Append(@, d.snap)])

\* decode's variables before the loop: offset.pos, snapshots, lastSnap (has:
\* lastSnap is not null), and the counters of the frame being expanded
DecodeInitial ==
    [pos |-> 0, snapshots |-> <<>>, lastSnap |-> NoSnap, has |-> FALSE,
     i |-> 0, count |-> 0]

\* while (offset.pos < bytes.length) { marker = bytes[offset.pos++]; ... }
RECURSIVE DecodeLoop(_, _)
DecodeLoop(bytes, st) ==
    IF st.pos >= Len(bytes) THEN Returned(st.snapshots)
    ELSE LET marker == ByteAt(bytes, st.pos)
         IN  IF marker = 1
             THEN LET k == ReadKeyframe(bytes, st.pos + 1)
                  IN  DecodeLoop(bytes, [st EXCEPT !.pos = k.pos,
                                                   !.snapshots = Append(@, k.snap),
                                                   !.lastSnap = k.snap,
                                                   !.has = TRUE])
             ELSE IF marker = 2
             THEN LET c == readVarInt(bytes, st.pos + 1)
                  IN  IF c.value <= 0
                      THEN DecodeLoop(bytes, [st EXCEPT !.pos = c.pos])
                      ELSE IF ~st.has THEN Thrown
                      ELSE DecodeLoop(bytes,
                               ExpandRun([st EXCEPT !.pos = c.pos, !.i = 0,
                                                    !.count = c.value]))
             ELSE IF marker = 3
             THEN LET c == readVarInt(bytes, st.pos + 1)
                  IN  IF c.value <= 0
                      THEN DecodeLoop(bytes, [st EXCEPT !.pos = c.pos])
                      ELSE IF ~st.has THEN Thrown
                      ELSE DecodeLoop(bytes,
                               ExpandDeltas(bytes, [st EXCEPT !.pos = c.pos, !.i = 0,
                                                              !.count = c.value]))
             ELSE DecodeLoop(bytes, [st EXCEPT !.pos = @ + 1])

\* the body of the try block
DecodeTry(encoded) ==
    LET a == Atob(encoded)
    IN  IF ~a.ok THEN Thrown
        ELSE DecodeLoop(decrypt(a.bytes), DecodeInitial)

\* decode without its try/catch
decodeNoCatch(encoded) ==
    IF Len(encoded) = 0 THEN Returned(<<>>) ELSE DecodeTry(encoded)

\* decode: [] for an empty string; the catch turns a throw into []
decode(encoded) ==
    IF Len(encoded) = 0 THEN Returned(<<>>)
    ELSE LET r == DecodeTry(encoded)
         IN  IF r.threw THEN Returned(<<>>) ELSE r

(***************************************************************************)
(* GhostRecorder.generateChecksum: the 32-bit hash and its 8 hex digits.   *)
(***************************************************************************)
\* for (const snap of snapshots) { hash = ... x; hash = ... z }
RECURSIVE HashSnaps(_, _)
HashSnaps(snaps, st) ==
    IF st.i > Len(snaps) THEN st.hash
    ELSE HashSnaps(snaps,
             [i |-> st.i + 1,
              hash |-> HashStep(HashStep(st.hash, QuantPos(snaps[st.i].x)),
                                QuantPos(snaps[st.i].z))])

\* (hash >>> 0).toString(16).padStart(8, '0'): most significant digit first
Hex8(hash) ==
    LET low == Low31(hash)
        top == (low \div 2^28) + (IF hash < 0 THEN 8 ELSE 0)
    IN  <<top>> \o [i \in 1..7 |-> (low \div 2^(4 * (7 - i))) % 16]

generateChecksum(snaps, finalTime) ==
    Hex8(HashStep(HashStep(HashSnaps(snaps, [i |-> 1, hash |-> 0]), finalTime), Len(snaps)))

(***************************************************************************)
(* Server (functions/index.js): decodeEvents and generateChecksum.         *)
(***************************************************************************)
Undefined == -1

\* Buffer.from(text, 'base64'): characters outside the alphabet are skipped
\* and decoding stops at the first '='
IsAlphabet(c) == c < PadChar

Base64Chars(str) ==
    LET pads == {i \in 1..Len(str) : str[i] = PadChar}
        stop == IF pads = {} THEN Len(str) + 1
                ELSE CHOOSE i \in pads : \A j \in pads : i <= j
    IN  SelectSeq(SubSeq(str, 1, stop - 1), IsAlphabet)

BufferFromBase64(str) == SextetsToBytes(Base64Chars(str))

\* for (i = 0; i < decrypted.length; i += 3): two delta bytes and an event type;
\* a byte past the end is undefined (0 in the delta, Undefined as the type)
RECURSIVE ParseEvents(_, _)
ParseEvents(decrypted, st) ==
    IF st.i >= Len(decrypted) THEN st.events
    ELSE LET deltaHigh == ByteAt(decrypted, st.i)
             deltaLow  == ByteAt(decrypted, st.i + 1)
             eventType == ByteAt(decrypted, st.i + 2)
             delta     == deltaHigh * 256 + (IF deltaLow < 0 THEN 0 ELSE deltaLow)
             time      == st.currentTime + delta
         IN  ParseEvents(decrypted,
                 [i |-> st.i + 3,
                  currentTime |-> time,
                  events |-> Append(st.events, [time |-> time, eventType |-> eventType])])

\* the server's ENCRYPT_KEY, 'ChipsRacing2024!' as character codes
ServerEncryptKey ==
    <<67, 104, 105, 112, 115, 82, 97, 99, 105, 110, 103, 50, 48, 50, 52, 33>>

\* decrypted[i] = encrypted[i] ^ ENCRYPT_KEY.charCodeAt(i % ENCRYPT_KEY.length)
XorDecrypt(encrypted) ==
    [i \in 1..Len(encrypted) |->
        BitXorNat(encrypted[i], ServerEncryptKey[((i - 1) % Len(ServerEncryptKey)) + 1])]

decodeEvents(encoded) ==
    ParseEvents(XorDecrypt(BufferFromBase64(encoded)),
                [i |-> 0, currentTime |-> 0, events |-> <<>>])

\* hash + undefined is NaN, and NaN | 0 is 0
RECURSIVE HashEvents(_, _)
HashEvents(events, st) ==
    IF st.i > Len(events) THEN st.hash
    ELSE LET h1 == HashStep(st.hash, events[st.i].time)
             h2 == IF events[st.i].eventType = Undefined THEN 0
                   ELSE HashStep(h1, events[st.i].eventType)
         IN  HashEvents(events, [i |-> st.i + 1, hash |-> h2])

ServerChecksum(events, finalTime) ==
    Hex8(HashStep(HashStep(HashEvents(events, [i |-> 1, hash |-> 0]), finalTime), Len(events)))

(***************************************************************************)
(* Server (functions/index.js): simulateRun.                               *)
(*                                                                         *)
(* Numbers.  The loop variable time is the double obtained by adding       *)
(* dt * 1000 = 16.666666666666668 once per frame; the model keeps the      *)
(* frame count k and the sign of the rounding error of that sum against    *)
(* the exact k * 50 / 3 (DriftSign), which decides the comparisons of time *)
(* with whole milliseconds.  Velocities are integer multiples of           *)
(* 1/SimVelDen units per second, positions of 1/SimPosDen units (one frame *)
(* of a velocity unit), headings and the values of sin and cos of          *)
(* 1/TrigDen; every product is rounded to its grid.                        *)
(***************************************************************************)
acceleration == 40
maxSpeed == 30
brakeForce == 50
frictionPercent == 98
turnSpeedTenths == 25
framesPerSecond == 60
startPosX == 0
startPosZ == 34
finishRadius == 15

SimVelDen == 1000
SimPosDen == framesPerSecond * SimVelDen
TrigDen == 10000

\* pi/2, pi and 2 pi on the heading grid
HalfPi == 15708
Pi == 31416
TwoPi == 62832

\* Math.atan2(checkPoints[1].x - checkPoints[0].x, checkPoints[1].z - checkPoints[0].z)
\* = atan2(4.69789, -0.14173) = 1.60096
InitialRotation == 16010

\* sin on [0, pi/2]: x - x^3/6 + x^5/120 - x^7/5040, nested
SinQuadrant(x) ==
    LET x2 == Round(x * x, TrigDen)
        a  == TrigDen - Round(x2, 42)
        b  == TrigDen - Round(x2 * a, 20 * TrigDen)
        c  == TrigDen - Round(x2 * b, 6 * TrigDen)
    IN  Round(x * c, TrigDen)

\* Math.sin and Math.cos of a heading
Sin(r) ==
    LET m == r % TwoPi
    IN  IF m <= HalfPi THEN SinQuadrant(m)
        ELSE IF m <= Pi THEN SinQuadrant(Pi - m)
        ELSE IF m <= Pi + HalfPi THEN -SinQuadrant(m - Pi)
        ELSE -SinQuadrant(TwoPi - m)

Cos(r) == Sin(r + HalfPi)

\* Math.sqrt of a squared speed just above maxSpeed^2: three Newton steps
SqrtNear(n, guess) ==
    LET s1 == (guess + n \div guess) \div 2
        s2 == (s1 + n \div s1) \div 2
    IN  (s2 + n \div s2) \div 2

\* frames at which the sign of (time - k * 50 / 3) changes: <<frame, sign>>
DriftBreaks ==
    << <<1, 1>>, <<3, 0>>, <<4, 1>>, <<9, 0>>, <<10, -1>>, <<18, 0>>, <<19, 1>>,
       <<36, 0>>, <<37, -1>>, <<75, 0>>, <<76, 1>>, <<147, 0>>, <<148, -1>>,
       <<294, 0>>, <<295, 1>>, <<591, 0>>, <<592, -1>>, <<1179, 0>>, <<1180, 1>>,
       <<2361, 0>>, <<2362, -1>> >>

\* the sign of the rounding error of time after k additions of dt * 1000
DriftSign(k) ==
    LET past == {i \in 1..Len(DriftBreaks) : DriftBreaks[i][1] <= k}
    IN  IF past = {} THEN 0
        ELSE DriftBreaks[CHOOSE i \in past : \A j \in past : j <= i][2]

\* time < ms and time > ms, for the time of frame k and whole milliseconds
TimeLess(k, ms) == 50 * k < 3 * ms \/ (50 * k = 3 * ms /\ DriftSign(k) < 0)
TimeGreater(k, ms) == 50 * k > 3 * ms \/ (50 * k = 3 * ms /\ DriftSign(k) > 0)

\* an input event as decodeEvents produces it
Event(t, type) == [time |-> t, eventType |-> type]

\* getInputAtTime without the break at the first later event
getInputAtTimeNoBreak(events, k) ==
    LET isDown(j) == events[j].eventType # Undefined /\ events[j].eventType < 5
        keyIndex(j) == IF isDown(j) THEN events[j].eventType
                       ELSE IF events[j].eventType = Undefined THEN Undefined
                       ELSE events[j].eventType - 5
        Held(key) ==
            LET on == {j \in 1..Len(events) : keyIndex(j) = key}
            IN  on # {} /\ isDown(CHOOSE j \in on : \A i \in on : i <= j)
    IN  [forward |-> Held(0), backward |-> Held(1), left |-> Held(2),
         right |-> Held(3), handbrake |-> Held(4)]

\* getInputAtTime: the events up to the first one later than time, in order;
\* types 0..4 press and 5..9 release forward, backward, left, right, handbrake
getInputAtTime(events, k) ==
    LET later == {j \in 1..Len(events) : TimeLess(k, events[j].time)}
        stop  == IF later = {} THEN Len(events) + 1
                 ELSE CHOOSE j \in later : \A i \in later : j <= i
        isDown(j) == events[j].eventType # Undefined /\ events[j].eventType < 5
        keyIndex(j) == IF isDown(j) THEN events[j].eventType
                       ELSE IF events[j].eventType = Undefined THEN Undefined
                       ELSE events[j].eventType - 5
        Held(key) ==
            LET on == {j \in 1..(stop - 1) : keyIndex(j) = key}
            IN  on # {} /\ isDown(CHOOSE j \in on : \A i \in on : i <= j)
    IN  [forward |-> Held(0), backward |-> Held(1), left |-> Held(2),
         right |-> Held(3), handbrake |-> Held(4)]

\* simulateRun's variables before the loop; k counts the frames done
SimInit ==
    [k |-> 0,
     posX |-> startPosX * SimPosDen, posZ |-> startPosZ * SimPosDen,
     velX |-> 0, velZ |-> 0,
     rotation |-> InitialRotation,
     hasLeftStart |-> FALSE, finished |-> FALSE, finishFrame |-> 0]

\* Math.sqrt(dx^2 + dz^2) against a whole number of units, in hundredths
DistHundredths(s) ==
    [dx |-> Round(s.posX - startPosX * SimPosDen, SimPosDen \div 100),
     dz |-> Round(s.posZ - startPosZ * SimPosDen, SimPosDen \div 100)]

DistGreater(s, units) ==
    LET d == DistHundredths(s)
    IN  \/ Abs(d.dx) > 100 * units
        \/ Abs(d.dz) > 100 * units
        \/ d.dx * d.dx + d.dz * d.dz > (100 * units) * (100 * units)

DistLess(s, units) ==
    LET d == DistHundredths(s)
    IN  /\ Abs(d.dx) < 100 * units
        /\ Abs(d.dz) < 100 * units
        /\ d.dx * d.dx + d.dz * d.dz < (100 * units) * (100 * units)

\* a velocity
Vel(x, z) == [x |-> x, z |-> z]

\* the values the loop body computes first: input, forward, right (right.x
\* is forward.z and right.z is -forward.x) and currentSpeed
FrameValues(s, events) ==
    [input |-> getInputAtTime(events, s.k),
     fx |-> Sin(s.rotation), fz |-> Cos(s.rotation),
     rx |-> Cos(s.rotation), rz |-> -Sin(s.rotation),
     currentSpeed |-> Round(s.velX * Sin(s.rotation) + s.velZ * Cos(s.rotation), TrigDen)]

\* forward * rate * dt, for a rate in units per second squared
Thrust(f, rate) == Round(f * rate * SimVelDen, TrigDen * framesPerSecond)

\* Acceleration
Accelerate(v, c) ==
    IF c.input.forward
    THEN Vel(v.x + Thrust(c.fx, acceleration), v.z + Thrust(c.fz, acceleration))
    ELSE v

\* Braking
Brake(v, c) ==
    IF c.input.backward
    THEN Vel(Round((v.x - Thrust(c.fx, brakeForce)) * 92, 100),
             Round((v.z - Thrust(c.fz, brakeForce)) * 92, 100))
    ELSE v

\* steerAmount * turnSpeed * dt on the heading grid
TurnStep(currentSpeed) ==
    IF Abs(currentSpeed) > SimVelDen \div 2
    THEN Round(turnSpeedTenths * (TrigDen \div 10), framesPerSecond)
    ELSE LET slow == Round(turnSpeedTenths * (TrigDen \div 10) * 3, framesPerSecond * 10)
             part == Round(turnSpeedTenths * (TrigDen \div 10) * Abs(currentSpeed),
                           framesPerSecond * (SimVelDen \div 2))
         IN  IF slow > part THEN slow ELSE part

\* Steering
Steer(rotation, c) ==
    IF Abs(c.currentSpeed) > SimVelDen \div 10
    THEN rotation + (IF c.input.left THEN TurnStep(c.currentSpeed) ELSE 0)
                  - (IF c.input.right THEN TurnStep(c.currentSpeed) ELSE 0)
    ELSE rotation

\* vel.x * right.x + vel.z * right.z
LateralSpeed(v, c) == Round(v.x * c.rx + v.z * c.rz, TrigDen)

\* Handbrake
Handbrake(v, c) ==
    IF c.input.handbrake
    THEN Vel(Round((v.x - Round(c.rx * LateralSpeed(v, c), 20 * TrigDen)) * 97, 100),
             Round((v.z - Round(c.rz * LateralSpeed(v, c), 20 * TrigDen)) * 97, 100))
    ELSE v

\* Speed limit
SpeedLimit(v) ==
    IF v.x * v.x + v.z * v.z > (maxSpeed * SimVelDen) * (maxSpeed * SimVelDen)
    THEN Vel(Round(v.x * (maxSpeed * SimVelDen),
                   SqrtNear(v.x * v.x + v.z * v.z, maxSpeed * SimVelDen)),
             Round(v.z * (maxSpeed * SimVelDen),
                   SqrtNear(v.x * v.x + v.z * v.z, maxSpeed * SimVelDen)))
    ELSE v

\* Friction: Math.pow(friction, dt * 60) is friction
Friction(v) == Vel(Round(v.x * frictionPercent, 100), Round(v.z * frictionPercent, 100))

\* Lateral friction
LateralFriction(v, c) ==
    IF c.input.handbrake THEN v
    ELSE Vel(v.x - Round(c.rx * LateralSpeed(v, c), 10 * TrigDen),
             v.z - Round(c.rz * LateralSpeed(v, c), 10 * TrigDen))

\* Update position
UpdatePosition(s, v, rotation) ==
    [s EXCEPT !.posX = @ + v.x, !.posZ = @ + v.z,
              !.velX = v.x, !.velZ = v.z, !.rotation = rotation]

\* the finish check without the hasLeftStart condition
CheckFinishAnywhere(s, k) ==
    [s EXCEPT !.k = k + 1,
              !.hasLeftStart = @ \/ DistGreater(s, finishRadius * 2),
              !.finished = DistLess(s, finishRadius) /\ TimeGreater(k, 5000),
              !.finishFrame = IF DistLess(s, finishRadius) /\ TimeGreater(k, 5000)
                              THEN k ELSE 0]

\* Check finish line, and time += dt * 1000
CheckFinish(s, k) ==
    [s EXCEPT !.k = k + 1,
              !.hasLeftStart = @ \/ DistGreater(s, finishRadius * 2),
              !.finished = /\ (s.hasLeftStart \/ DistGreater(s, finishRadius * 2))
                           /\ DistLess(s, finishRadius)
                           /\ TimeGreater(k, 5000),
              !.finishFrame = IF /\ (s.hasLeftStart \/ DistGreater(s, finishRadius * 2))
                                 /\ DistLess(s, finishRadius)
                                 /\ TimeGreater(k, 5000)
                              THEN k ELSE 0]

\* the loop body from the acceleration on, given the values computed first
Integrate(s, c) ==
    CheckFinish(
        UpdatePosition(s,
            LateralFriction(
                Friction(SpeedLimit(Handbrake(Brake(Accelerate(Vel(s.velX, s.velZ), c), c), c))),
                c),
            Steer(s.rotation, c)),
        s.k)

\* one iteration of the loop body, at frame s.k
SimFrame(s, events) == Integrate(s, FrameValues(s, events))

\* for (let time = 0; time < maxTime && !finished; time += dt * 1000)
SimContinues(s, reportedTime) ==
    TimeLess(s.k, reportedTime + 5000) /\ ~s.finished

\* Math.abs(finishTime - reportedTime) > reportedTime * 0.1, finishTime being
\* the time of frame finishFrame, or 0 when the loop ended unfinished
TimeMismatch(s, reportedTime) ==
    IF ~s.finished THEN 10 * Abs(reportedTime) > reportedTime
    ELSE LET d == 50 * s.finishFrame - 3 * reportedTime
         IN  \/ 10 * Abs(d) > 3 * reportedTime
             \/ /\ 10 * Abs(d) = 3 * reportedTime
                /\ \/ d > 0 /\ DriftSign(s.finishFrame) > 0
                   \/ d < 0 /\ DriftSign(s.finishFrame) < 0

NotCompleted == "Simulation did not complete the track"
Mismatch == "Time mismatch"

NoVerdict == [valid |-> FALSE, errors |-> <<>>, simulatedTime |-> Undefined]

\* the verdict with the time tolerance at 20% instead of 10%
VerdictLoose(s, reportedTime) ==
    LET e1 == IF ~s.finished THEN <<NotCompleted>> ELSE <<>>
        e2 == IF TimeMismatch(s, reportedTime)
                 /\ (~s.finished
                     \/ 5 * Abs(50 * s.finishFrame - 3 * reportedTime) > 3 * reportedTime)
              THEN <<Mismatch>> ELSE <<>>
    IN  [valid |-> Len(e1 \o e2) = 0, errors |-> e1 \o e2,
         simulatedTime |-> s.finishFrame]

\* the validation checks after the loop and the returned object;
\* simulatedTime is given as the finish frame
Verdict(s, reportedTime) ==
    LET e1 == IF ~s.finished THEN <<NotCompleted>> ELSE <<>>
        e2 == IF TimeMismatch(s, reportedTime) THEN <<Mismatch>> ELSE <<>>
    IN  [valid |-> Len(e1 \o e2) = 0, errors |-> e1 \o e2,
         simulatedTime |-> s.finishFrame]


(***************************************************************************)
(* The Firestore collection 'leaderboard': a set of documents.  A field a  *)
(* writer does not set is Undefined (a number) or NoMap (mapID).           *)
(***************************************************************************)
NoMap == "none"

Doc(id, name, time, inputs, checksum, mapID, simulatedTime) ==
    [id |-> id, name |-> name, time |-> time, inputs |-> inputs,
     checksum |-> checksum, mapID |-> mapID, simulatedTime |-> simulatedTime]

\* orderBy('time', 'asc'): equal times in the order of the document ids
Before(a, b) == a.time < b.time \/ (a.time = b.time /\ a.id < b.id)

OrderByTime(docs) ==
    [i \in 1..Cardinality(docs) |->
        CHOOSE d \in docs : Cardinality({e \in docs : Before(e, d)}) = i - 1]

OrderByTimeDesc(docs) ==
    [i \in 1..Cardinality(docs) |->
        CHOOSE d \in docs : Cardinality({e \in docs : Before(d, e)}) = i - 1]

\* limit(n)
Limit(q, n) == SubSeq(q, 1, IF Len(q) < n THEN Len(q) ELSE n)

\* 'Player' as character codes
PlayerName == <<80, 108, 97, 121, 101, 114>>

(***************************************************************************)
(* Server: validateAndSubmitRun, the checks before the simulation.         *)
(***************************************************************************)
\* request.data; inputsIsString = FALSE: inputs is a number, its digits given
Request(nameIsString, name, timeIsNumber, time, inputsIsString, inputs, checksum) ==
    [nameIsString |-> nameIsString, name |-> name,
     timeIsNumber |-> timeIsNumber, time |-> time,
     inputsIsString |-> inputsIsString, inputs |-> inputs, checksum |-> checksum]

NoRequest == Request(FALSE, <<>>, FALSE, 0, FALSE, <<>>, <<>>)

\* throw new HttpsError(code, message); detail: the simulation's error list
HttpsError(code, message, detail) ==
    [kind |-> "error", code |-> code, message |-> message, detail |-> detail,
     success |-> FALSE, rank |-> 0]

\* return { success, rank, message }
Returns(success, rank, message) ==
    [kind |-> "return", code |-> "ok", message |-> message, detail |-> <<>>,
     success |-> success, rank |-> rank]

NoResponse ==
    [kind |-> "none", code |-> "", message |-> "", detail |-> <<>>,
     success |-> FALSE, rank |-> 0]

InvalidArgument == "invalid-argument"
ChecksumMismatch == "Checksum mismatch - data tampered"
ValidationFailed == "Validation failed"

\* the basic validation: the message of the error thrown, "" when it passes
BasicValidation(req) ==
    IF req.inputs = <<>> \/ req.checksum = <<>> \/ req.time = 0
    THEN "Missing required fields"
    ELSE IF ~req.timeIsNumber \/ req.time < 10000 THEN "Invalid time"
    ELSE IF ~req.nameIsString \/ Len(req.name) > 20 THEN "Invalid name"
    ELSE ""

\* Buffer.from(inputs, 'base64') throws a TypeError for a number
DecodeThrows == "TypeError"

\* EventValidation without the checksum comparison
EventValidationNoChecksum(req) ==
    IF ~req.inputsIsString THEN DecodeThrows
    ELSE IF Len(decodeEvents(req.inputs)) < 10 THEN "Too few input events"
    ELSE ""

\* decodeEvents, the event count and the checksum: "" when they pass, the
\* message of the HttpsError thrown, or DecodeThrows
EventValidation(req) ==
    IF ~req.inputsIsString THEN DecodeThrows
    ELSE LET evs == decodeEvents(req.inputs)
         IN  IF Len(evs) < 10 THEN "Too few input events"
             ELSE IF req.checksum # ServerChecksum(evs, req.time) THEN ChecksumMismatch
             ELSE ""

\* qualifies = topTen.size < 10, else time < worstTime
Qualifies(topTen, time) ==
    Len(topTen) < 10 \/ (Len(topTen) > 0 /\ time < topTen[Len(topTen)].time)


(***************************************************************************)
(* Client: GhostRecorder.validateClient.                                   *)
(***************************************************************************)
\* dist / dt > 50 for the step (dx, dz) on the position grid in ms
\* milliseconds: dx^2 + dz^2 > (5 * ms * g)^2 with g = PosDen / 100, compared
\* digit by digit in base g
SpeedOver(dx, dz, ms) ==
    LET g  == PosDen \div 100
        a1 == dx \div g
        b1 == dx % g
        a2 == dz \div g
        b2 == dz % g
        hi  == a1 * a1 + a2 * a2 - 25 * ms * ms
        mid == 2 * (a1 * b1 + a2 * b2) + ((b1 * b1 + b2 * b2) \div g)
        lo  == (b1 * b1 + b2 * b2) % g
        top == hi + (mid \div g)
    IN  top > 0 \/ (top = 0 /\ (mid % g > 0 \/ lo > 0))

Valid == [valid |-> TRUE, errors |-> <<>>]
InvalidNoErrors(error) == [valid |-> FALSE, errors |-> <<>>]
Invalid(error) == [valid |-> FALSE, errors |-> <<error>>]

validateClient(snaps, time) ==
    IF Len(snaps) < 50 THEN Invalid("Recording too short")
    ELSE IF time < 10000 THEN Invalid("Impossible completion time")
    ELSE IF \E i \in 1..Len(snaps) :
                snaps[i].time < (IF i = 1 THEN 0 ELSE snaps[i - 1].time)
    THEN Invalid("Snapshots out of order")
    ELSE IF \E i \in 2..Len(snaps) :
                /\ snaps[i].time - snaps[i - 1].time > 0
                /\ SpeedOver(snaps[i].x - snaps[i - 1].x, snaps[i].z - snaps[i - 1].z,
                             snaps[i].time - snaps[i - 1].time)
    THEN Invalid("Teleportation detected")
    ELSE Valid

(***************************************************************************)
(* Client: GhostManager.submitRun and FirebaseService.submitRun.           *)
(***************************************************************************)
\* let globalRank = null
Null == 0

PersonalEntry(time, data, sum, timestamp) ==
    [time |-> time, data |-> data, checksum |-> sum, timestamp |-> timestamp]

\* Array.prototype.sort((a, b) => a.time - b.time): stable
SortByTime(list) ==
    LET Rank(j) == Cardinality({k \in 1..Len(list) :
                       \/ list[k].time < list[j].time
                       \/ (list[k].time = list[j].time /\ k < j)}) + 1
    IN  [i \in 1..Len(list) |-> list[CHOOSE j \in 1..Len(list) : Rank(j) = i]]

\* push, sort, slice(0, 10)
PushSorted(list, entry) == Limit(SortByTime(Append(list, entry)), 10)

\* findIndex(e => e.timestamp === timestamp) + 1
RankByTimestamp(list, timestamp) ==
    LET hits == {i \in 1..Len(list) : list[i].timestamp = timestamp}
    IN  IF hits = {} THEN 0 ELSE CHOOSE i \in hits : \A j \in hits : i <= j

\* fetchLeaderboard's query: where mapID == mapId, orderBy time asc, limit 10
MapQuery(docs, mapId) == Limit(OrderByTime({d \in docs : d.mapID = mapId}), 10)

\* what firebaseService.submitRun gave: a returned object, or a rejection
RemoteReturned(success, rank, error) ==
    [state |-> "returned", success |-> success, rank |-> rank, error |-> error]
RemoteThrew == [state |-> "threw", success |-> FALSE, rank |-> 0, error |-> ""]
RemotePending == [state |-> "pending", success |-> FALSE, rank |-> 0, error |-> ""]

NoRun ==
    [accepted |-> FALSE, name |-> <<>>, time |-> 0, encoded |-> <<>>,
     checksum |-> <<>>, timestamp |-> 0, before |-> <<>>, personalRank |-> 0,
     isPersonalBest |-> FALSE, mapId |-> "default", remote |-> RemotePending]

Result(success, errors, personalRank, globalRank, isPersonalBest) ==
    [success |-> success, errors |-> errors, personalRank |-> personalRank,
     globalRank |-> globalRank, isPersonalBest |-> isPersonalBest]

NoResult == Result(FALSE, <<>>, 0, Null, FALSE)


(***************************************************************************)
(* GhostRecorder.getStateAtTime and lerpAngle.  Headings inside lerpAngle  *)
(* are on the grid of 1/AngleDen rad, on which Math.PI is MathPi and a     *)
(* sample's rotY is rotY * (AngleDen / RotDen); a fraction t is num / den. *)
(***************************************************************************)
AngleDen == 10000000
MathPi == 31415927
TwoMathPi == 62831853

\* value * num / den, rounded to the grid of value
MulDiv(value, num, den) == (value \div den) * num + Round((value % den) * num, den)

\* a + diff * t without the correction of diff
lerpAngleNoWrap(a, b, num, den) == a + MulDiv(b - a, num, den)

lerpAngle(a, b, num, den) ==
    LET diff  == b - a
        short == IF diff > MathPi THEN diff - TwoMathPi
                 ELSE IF diff < -MathPi THEN diff + TwoMathPi
                 ELSE diff
    IN  a + MulDiv(short, num, den)

\* what getStateAtTime returns: null, a stored sample, or an interpolated
\* state (rotY on the grid of lerpAngle, speed in thousandths)
NullState == [isNull |-> TRUE, stored |-> FALSE, time |-> 0, x |-> 0, z |-> 0,
              rotY |-> 0, speed |-> 0]
StoredState(snap) == [isNull |-> FALSE, stored |-> TRUE, time |-> snap.time,
                      x |-> snap.x, z |-> snap.z,
                      rotY |-> snap.rotY * (AngleDen \div RotDen), speed |-> Undefined]

\* Math.sqrt(vx * vx + vz * vz), to a thousandth
Speed(vx, vz) ==
    IF vx = 0 /\ vz = 0 THEN 0
    ELSE SqrtNear(vx * vx + vz * vz, Abs(vx) + Abs(vz))

\* the search with snapshots[mid].time < time as its test
RECURSIVE SearchStrict(_, _, _)
SearchStrict(snaps, time, st) ==
    IF ~(st.low < st.high - 1) THEN st
    ELSE LET mid == (st.low + st.high) \div 2
         IN  SearchStrict(snaps, time,
                          IF snaps[mid].time < time THEN [st EXCEPT !.low = mid]
                          ELSE [st EXCEPT !.high = mid])

\* while (low < high - 1) { mid = floor((low + high) / 2); ... }, 1-based
RECURSIVE Search(_, _, _)
Search(snaps, time, st) ==
    IF ~(st.low < st.high - 1) THEN st
    ELSE LET mid == (st.low + st.high) \div 2
         IN  Search(snaps, time,
                    IF snaps[mid].time <= time THEN [st EXCEPT !.low = mid]
                    ELSE [st EXCEPT !.high = mid])

\* the two ends of the recording, no search made
BracketEnds(snaps, time) == [low |-> 1, high |-> Len(snaps)]

Bracket(snaps, time) == Search(snaps, time, [low |-> 1, high |-> Len(snaps)])

getStateAtTime(snaps, time) ==
    IF Len(snaps) = 0 THEN NullState
    ELSE IF time <= snaps[1].time THEN StoredState(snaps[1])
    ELSE IF time >= snaps[Len(snaps)].time THEN NullState
    ELSE LET found == Bracket(snaps, time)
             prev  == snaps[found.low]
             next  == snaps[found.high]
             num   == time - prev.time
             den   == next.time - prev.time
         IN  [isNull |-> FALSE, stored |-> FALSE, time |-> time,
              x |-> prev.x + MulDiv(next.x - prev.x, num, den),
              z |-> prev.z + MulDiv(next.z - prev.z, num, den),
              rotY |-> lerpAngle(prev.rotY * (AngleDen \div RotDen),
                                 next.rotY * (AngleDen \div RotDen), num, den),
              speed |-> Speed(prev.vx, prev.vz)]

(***************************************************************************)
(* State.                                                                  *)
(***************************************************************************)
VARIABLES
    snapshots,      \* the samples handed to encode
    pc,             \* codec pipeline: "record", "encoded", "decoded", "verified"
    finalTime,      \* the run's time, as given to generateChecksum
    encoded,        \* the blob: base64 text
    checksum,       \* the client's checksum
    decoded,        \* decode's outcome for the blob
    serverChecksum, \* the checksum the server computes from the blob
    stream,         \* frame bytes of a stored blob, before obfuscation
    chunks,         \* how many pieces the stream was put together from
    spc,            \* server: position in validateAndSubmitRun / simulateRun
    request,        \* server: request.data, NoRequest for a bare simulateRun call
    events,         \* server: the decoded events
    reportedTime,   \* server: simulateRun's reportedTime
    sim,            \* server: simulateRun's loop variables
    verdict,        \* server: simulateRun's return value
    docId,          \* server: docRef.id of the entry added
    log,            \* server: what the call did so far, in order
    response,       \* server: what the call threw or returned
    leaderboard,    \* the Firestore collection 'leaderboard'
    cpc,            \* client: position in GhostManager.submitRun
    personalBests,  \* client: GhostManager.personalBests
    storage,        \* client: the list saved in localStorage
    initialized,    \* client: FirebaseService.initialized (and db)
    clock,          \* client: Date.now()
    run,            \* client: the locals of the submitRun call in flight
    result,         \* client: what GhostManager.submitRun returned
    validated,      \* recorder: what validateClient returned for snapshots
    altered,        \* recorder: a changed sample and the checksum it gives
    ghost,          \* recorder: a getStateAtTime call and what it returned
    lerp,           \* recorder: a lerpAngle call and what it returned
    encoder,        \* recorder: the variables of encode's loop, i included
    varint,         \* recorder: a varint written into a byte array and read back
    playerNameInput,\* UI: the value of the name field
    savedPlayerName,\* UI: UIManager.savedPlayerName (and the localStorage item)
    pendingRun,     \* UI: UIManager.pendingRun
    nameScreen,     \* UI: the name screen is displayed
    finishScreen,   \* UI: the finish screen is displayed
    invocations,    \* UI: the submitCurrentRun calls made, with their locals
    currentMapId,   \* Game.currentMapId
    track,          \* Game.track: the map the track was built for
    mapId,          \* GhostManager.mapId
    globalLeaderboard, \* GhostManager.globalLeaderboard
    fetches,        \* the fetchGlobalLeaderboard calls awaiting their response
    ghosts          \* GhostManager.ghosts: the entries the ghosts were built from

codecVars == <<snapshots, pc, finalTime, encoded, checksum, decoded, serverChecksum,
               stream, chunks>>

serverVars == <<spc, request, events, reportedTime, sim, verdict, docId, log, response>>

clientVars == <<cpc, personalBests, storage, initialized, clock, run, result>>

recorderVars == <<validated, altered, ghost, lerp, encoder>>

uiVars == <<playerNameInput, savedPlayerName, pendingRun, nameScreen, finishScreen,
            invocations>>

mapVars == <<currentMapId, track, mapId, globalLeaderboard, fetches, ghosts>>

restVars == <<varint, uiVars, mapVars>>

vars == <<codecVars, serverVars, clientVars, leaderboard, recorderVars, restVars>>


(***************************************************************************)
(* Sample sequences.  A sample follows its predecessor by a move: a time   *)
(* step, a deviation from the straight-line prediction, a heading change   *)
(* and a velocity change.                                                  *)
(***************************************************************************)
MaxVar == 2
MaxLen == 22

Move(ms, ex, ez, dr, dvx, dvz) ==
    [ms |-> ms, ex |-> ex, ez |-> ez, dr |-> dr, dvx |-> dvx, dvz |-> dvz]

Steady == Move(SNAPSHOT_INTERVAL, 0, 0, 0, 0, 0)

Moves ==
    { Steady,
      Move(SNAPSHOT_INTERVAL, 4000, 0, 0, 0, 0),              \* 0.004 off the prediction
      Move(SNAPSHOT_INTERVAL, 0, 0, 40, 0, 0),                \* heading + 0.004 rad
      Move(SNAPSHOT_INTERVAL, 20000, -14000, 500, -300, 304), \* a turn
      Move(SNAPSHOT_INTERVAL, 0, 0, 0, 1004, 0),              \* vx + 1.004
      Move(2 * SNAPSHOT_INTERVAL, 0, 0, 0, 0, 0),             \* a late sample
      Move(0, 0, 0, 0, 0, 0),                                 \* same instant
      Move(KEYFRAME_INTERVAL, 0, 0, -500, 0, 0) }             \* a one-second gap

\* at rest at the origin; under way at (1.234, 34) heading -1.5708, 130 s in
Starts ==
    { Snap(0, 0, 0, 0, 0, 0),
      Snap(129950, 1234000, 34000000, -15708, 10000, -2500) }

FinalTimes == {10000, 31999}

NextSnap(prev, m) ==
    Snap(prev.time + m.ms,
         Predict(prev.x, prev.vx, m.ms) + m.ex,
         Predict(prev.z, prev.vz, m.ms) + m.ez,
         prev.rotY + m.dr,
         prev.vx + m.dvx,
         prev.vz + m.dvz)

NoOutcome == Returned(<<>>)
NoChecksum == <<>>

\* the server and the client at rest, while another component is explored
CodecOff ==
    /\ snapshots = <<>>
    /\ pc = "off"
    /\ finalTime = 0
    /\ encoded = <<>>
    /\ checksum = NoChecksum
    /\ decoded = NoOutcome
    /\ serverChecksum = NoChecksum
    /\ stream = <<>>
    /\ chunks = 0

ServerOff ==
    /\ spc = "off"
    /\ request = NoRequest
    /\ events = <<>>
    /\ reportedTime = 0
    /\ sim = SimInit
    /\ verdict = NoVerdict
    /\ docId = 0
    /\ log = <<>>
    /\ response = NoResponse

ClientOff ==
    /\ cpc = "off"
    /\ personalBests = <<>>
    /\ storage = <<>>
    /\ initialized = FALSE
    /\ clock = 0
    /\ run = NoRun
    /\ result = NoResult

\* no call of validateClient, generateChecksum on a changed sample,
\* getStateAtTime or lerpAngle has been made
NoValidation == [valid |-> FALSE, errors |-> <<>>]
NoAltered == [index |-> 0, delta |-> 0, checksum |-> <<>>]
NoGhost == [snapshots |-> <<>>, finished |-> FALSE, visible |-> FALSE, time |-> 0,
            called |-> FALSE, state |-> NullState]
NoLerp == [a |-> 0, b |-> 0, num |-> 0, den |-> 1, called |-> FALSE, value |-> 0]

RecorderOff ==
    /\ validated = NoValidation
    /\ altered = NoAltered
    /\ ghost = NoGhost
    /\ lerp = NoLerp
    /\ encoder = EncodeInit

\* no varint call, no name screen, no map chosen
NoVarInt == [phase |-> "off", signed |-> FALSE, value |-> 0, bytes |-> <<>>,
             start |-> 0, read |-> 0, pos |-> 0]

VarIntOff == varint = NoVarInt

\* UIManager.pendingRun when it is null
NoPendingRun == [time |-> 0, snapshots |-> <<>>, race |-> 0]

UiOff ==
    /\ playerNameInput = <<>>
    /\ savedPlayerName = <<>>
    /\ pendingRun = NoPendingRun
    /\ nameScreen = FALSE
    /\ finishScreen = FALSE
    /\ invocations = <<>>

\* Game.track before a track is built
NoTrack == "none"

MapOff ==
    /\ currentMapId = "off"
    /\ track = NoTrack
    /\ mapId = "off"
    /\ globalLeaderboard = <<>>
    /\ fetches = <<>>
    /\ ghosts = <<>>

RestOff == VarIntOff /\ UiOff /\ MapOff

CodecInit ==
    /\ snapshots \in {<<s>> : s \in Starts}
    /\ pc = "record"
    /\ finalTime = 0
    /\ encoded = <<>>
    /\ checksum = NoChecksum
    /\ decoded = NoOutcome
    /\ serverChecksum = NoChecksum
    /\ stream = <<>>
    /\ chunks = 0
    /\ ServerOff
    /\ ClientOff
    /\ leaderboard = {}
    /\ RecorderOff
    /\ RestOff

\* one more sample; moves other than Steady only among the first samples
AppendSample(m) ==
    /\ pc = "record"
    /\ Len(snapshots) < MaxLen
    /\ m = Steady \/ Len(snapshots) <= MaxVar
    /\ snapshots' = Append(snapshots, NextSnap(Last(snapshots), m))
    /\ UNCHANGED <<pc, finalTime, encoded, checksum, decoded, serverChecksum, stream, chunks,
                   serverVars, clientVars, leaderboard, recorderVars, restVars>>

\* GhostManager.submitRun: encoded = encode(snapshots), checksum = generateChecksum(snapshots, time)
Encode(t) ==
    /\ pc = "record"
    /\ pc' = "encoded"
    /\ finalTime' = t
    /\ encoded' = encode(snapshots)
    /\ checksum' = generateChecksum(snapshots, t)
    /\ UNCHANGED <<snapshots, decoded, serverChecksum, stream, chunks,
                   serverVars, clientVars, leaderboard, recorderVars, restVars>>

\* GhostManager.createGhostMeshes: snapshots = decode(data)
Decode ==
    /\ pc = "encoded"
    /\ pc' = "decoded"
    /\ decoded' = decode(encoded)
    /\ UNCHANGED <<snapshots, finalTime, encoded, checksum, serverChecksum, stream, chunks,
                   serverVars, clientVars, leaderboard, recorderVars, restVars>>

\* validateAndSubmitRun: expectedChecksum = generateChecksum(decodeEvents(inputs), time)
ServerRecompute ==
    /\ pc = "decoded"
    /\ pc' = "verified"
    /\ serverChecksum' = ServerChecksum(decodeEvents(encoded), finalTime)
    /\ UNCHANGED <<snapshots, finalTime, encoded, checksum, decoded, stream, chunks,
                   serverVars, clientVars, leaderboard, recorderVars, restVars>>

CodecNext ==
    \/ \E m \in Moves : AppendSample(m)
    \/ \E t \in FinalTimes : Encode(t)
    \/ Decode
    \/ ServerRecompute

SpecCodec == CodecInit /\ [][CodecNext]_vars

(***************************************************************************)
(* Properties of the codec round trip (SpecCodec).                         *)
(***************************************************************************)
RoundTripDone == pc \in {"decoded", "verified"}

\* consecutive times exactly SNAPSHOT_INTERVAL apart
Nominal(snaps) ==
    \A i \in 2..Len(snaps) : snaps[i].time - snaps[i - 1].time = SNAPSHOT_INTERVAL

NonDecreasing(snaps) ==
    \A i \in 2..Len(snaps) : snaps[i].time >= snaps[i - 1].time

\* 0.01 unit and 0.001 radian on the grids
PosEps == PosDen \div POSITION_PRECISION
RotEps == RotDen \div ROTATION_PRECISION

\* the index of the keyframe that covers sample i
RECURSIVE LastKeyLoop(_, _, _)
LastKeyLoop(snaps, n, st) ==
    IF st.i >= n THEN st.k
    ELSE LastKeyLoop(snaps, n,
             [i |-> st.i + 1,
              k |-> IF snaps[st.i + 1].time - snaps[st.k].time >= KEYFRAME_INTERVAL
                    THEN st.i + 1 ELSE st.k])

LastKeyIndex(snaps, i) == LastKeyLoop(snaps, i, [i |-> 1, k |-> 1])

\* a sample as a keyframe stores it
Quantized(snap) ==
    Snap(snap.time, UnquantPos(QuantPos(snap.x)), UnquantPos(QuantPos(snap.z)),
         UnquantRot(QuantRot(snap.rotY)),
         UnquantVel(QuantVel(snap.vx)), UnquantVel(QuantVel(snap.vz)))

\* decoded sample i is the expansion of what input sample i was encoded as:
\* the stored keyframe, or the previous decoded sample advanced by one nominal
\* interval plus sample i's own residuals (none of them for a run repetition)
Corresponds(src, dst, i) ==
    IF LastKeyIndex(src, i) = i
    THEN dst[i] = Quantized(src[i])
    ELSE LET r == Residuals(src[i], src[i - 1])
         IN  /\ dst[i].time = dst[i - 1].time + SNAPSHOT_INTERVAL
             /\ dst[i].x = Predict(dst[i - 1].x, dst[i - 1].vx, SNAPSHOT_INTERVAL)
                             + UnquantPos(r.residualX)
             /\ dst[i].z = Predict(dst[i - 1].z, dst[i - 1].vz, SNAPSHOT_INTERVAL)
                             + UnquantPos(r.residualZ)
             /\ dst[i].rotY = dst[i - 1].rotY
                             + (IF ZeroResiduals(r) THEN 0 ELSE UnquantRot(r.residualRot))
             /\ dst[i].vx = dst[i - 1].vx + UnquantVel(r.residualVx)
             /\ dst[i].vz = dst[i - 1].vz + UnquantVel(r.residualVz)

\* C1 (as claimed): at nominal cadence every decoded sample is within 0.01 unit
\* and 0.001 radian of the original sample with the same index.
C1_RoundTripAccuracy ==
    (RoundTripDone /\ Nominal(snapshots)) =>
        \A i \in 1..Len(snapshots) :
            /\ i <= Len(decoded.snapshots)
            /\ Abs(decoded.snapshots[i].x - snapshots[i].x) <= PosEps
            /\ Abs(decoded.snapshots[i].z - snapshots[i].z) <= PosEps
            /\ Abs(decoded.snapshots[i].rotY - snapshots[i].rotY) <= RotEps

\* C2: for non-decreasing times, decode(encode(samples)) has as many samples as
\* the input and decoded sample i is the expansion of input sample i (keyframes,
\* run repetitions and delta tuples come out in the original order).
C2_RoundTripCount ==
    (RoundTripDone /\ NonDecreasing(snapshots)) =>
        /\ ~decoded.threw
        /\ Len(decoded.snapshots) = Len(snapshots)
        /\ \A i \in 1..Len(snapshots) : Corresponds(snapshots, decoded.snapshots, i)

FrameTypes(snaps) == {EncodeFrames(snaps)[k].type : k \in 1..Len(EncodeFrames(snaps))}

\* a decoded run recorded at an irregular cadence that needed a keyframe, a run
\* and a delta batch
C2_Witness ==
    /\ pc = "decoded"
    /\ ~Nominal(snapshots)
    /\ FrameTypes(snapshots) = {"key", "run", "deltas"}
    /\ Len(decoded.snapshots) >= 4

C4_ChecksumSurvives ==
    (RoundTripDone /\ Nominal(snapshots)) =>
        generateChecksum(decoded.snapshots, finalTime) = checksum

\* C9 (as claimed): the checksum the server recomputes over what it decodes from
\* an untampered client blob equals the checksum the client submitted.
C9_ServerChecksumMatches ==
    pc = "verified" => serverChecksum = checksum

(***************************************************************************)
(* Stored blobs of any content (SpecDecode): frame bytes put together from *)
(* whole frames and single bytes, possibly cut short, then obfuscated and  *)
(* written as base64 text, possibly damaged.                               *)
(***************************************************************************)
MaxChunks == 3

Chunks ==
    { <<0>>, <<1>>, <<2>>, <<3>>, <<128>> }
    \cup { SerializeFrame(KeyFrame(s)) : s \in Starts }
    \cup { SerializeFrame(RunFrame(2)),
           SerializeFrame(DeltaFrame(<<[residualX |-> 3, residualZ |-> -1,
                                        residualRot |-> 50, residualVx |-> 0,
                                        residualVz |-> -70]>>)) }

SealKinds == {"intact", "badchar", "cut"}

\* the text stored for the stream: intact, with a character outside the
\* alphabet, or with its last three characters missing
Seal(bytes, kind) ==
    LET text == Btoa(encrypt(bytes))
    IN  IF kind = "badchar" THEN Append(text, BadChar)
        ELSE IF kind = "cut" /\ Len(text) >= 3 THEN SubSeq(text, 1, Len(text) - 3)
        ELSE text

DecodeInit ==
    /\ snapshots = <<>>
    /\ pc = "build"
    /\ finalTime = 0
    /\ encoded = <<>>
    /\ checksum = NoChecksum
    /\ decoded = NoOutcome
    /\ serverChecksum = NoChecksum
    /\ stream = <<>>
    /\ chunks = 0
    /\ ServerOff
    /\ ClientOff
    /\ leaderboard = {}
    /\ RecorderOff
    /\ RestOff

AppendChunk(c) ==
    /\ pc = "build"
    /\ chunks < MaxChunks
    /\ chunks' = chunks + 1
    /\ stream' = stream \o c
    /\ UNCHANGED <<snapshots, pc, finalTime, encoded, checksum, decoded, serverChecksum,
                   serverVars, clientVars, leaderboard, recorderVars, restVars>>

\* the stream loses its last byte; nothing is appended afterwards
Truncate ==
    /\ pc \in {"build", "cut"}
    /\ Len(stream) > 0
    /\ pc' = "cut"
    /\ stream' = SubSeq(stream, 1, Len(stream) - 1)
    /\ UNCHANGED <<snapshots, finalTime, encoded, checksum, decoded, serverChecksum, chunks,
                   serverVars, clientVars, leaderboard, recorderVars, restVars>>

StoreBlob(kind) ==
    /\ pc \in {"build", "cut"}
    /\ pc' = "encoded"
    /\ encoded' = Seal(stream, kind)
    /\ UNCHANGED <<snapshots, finalTime, checksum, decoded, serverChecksum, stream, chunks,
                   serverVars, clientVars, leaderboard, recorderVars, restVars>>

DecodeNext ==
    \/ \E c \in Chunks : AppendChunk(c)
    \/ Truncate
    \/ \E k \in SealKinds : StoreBlob(k)
    \/ Decode

SpecDecode == DecodeInit /\ [][DecodeNext]_vars

(***************************************************************************)
(* Properties of decode on stored blobs (SpecDecode).                      *)
(***************************************************************************)
\* the position after the varint that starts at pos, or -1 when the bytes end
\* inside it
RECURSIVE VarIntEnd(_, _)
VarIntEnd(bytes, pos) ==
    IF pos >= Len(bytes) THEN -1
    ELSE IF bytes[pos + 1] >= 128 THEN VarIntEnd(bytes, pos + 1)
    ELSE pos + 1

RECURSIVE VarIntsEnd(_, _, _)
VarIntsEnd(bytes, pos, n) ==
    IF n = 0 \/ pos < 0 THEN pos
    ELSE VarIntsEnd(bytes, VarIntEnd(bytes, pos), n - 1)

\* the bytes from pos on are whole frames with known tags
RECURSIVE WholeFrames(_, _)
WholeFrames(bytes, pos) ==
    IF pos < 0 THEN FALSE
    ELSE IF pos >= Len(bytes) THEN TRUE
    ELSE IF bytes[pos + 1] = 1 THEN WholeFrames(bytes, VarIntsEnd(bytes, pos + 1, 6))
    ELSE IF bytes[pos + 1] = 2 THEN WholeFrames(bytes, VarIntEnd(bytes, pos + 1))
    ELSE IF bytes[pos + 1] = 3
    THEN LET e == VarIntEnd(bytes, pos + 1)
         IN  IF e < 0 THEN FALSE
             ELSE LET n == readVarInt(bytes, pos + 1).value
                  IN  n >= 0 /\ WholeFrames(bytes, VarIntsEnd(bytes, e, 5 * n))
    ELSE FALSE

\* truncated or corrupt: not a sequence of whole frames
Malformed(bytes) == ~WholeFrames(bytes, 0)

\* C5: decode returns an array for every input text and never throws.
C5_DecodeTotal ==
    pc = "decoded" =>
        /\ ~decoded.threw
        /\ DOMAIN decoded.snapshots = 1..Len(decoded.snapshots)
        /\ \A i \in DOMAIN decoded.snapshots :
               DOMAIN decoded.snapshots[i] = DOMAIN NoSnap

\* decode was given text whose processing throws inside the try block: a run
\* tag before any keyframe (first conjunct), text atob rejects (second)
C5_Witness ==
    /\ pc = "decoded"
    /\ DecodeTry(encoded).threw
    /\ decoded.snapshots = <<>>
    /\ Atob(encoded).ok

\* C6 (as claimed): a truncated or corrupt byte stream decodes to the empty
\* sequence.
C6_MalformedIsEmpty ==
    (pc = "decoded" /\ Atob(encoded).ok /\ Malformed(decrypt(Atob(encoded).bytes)))
        => decoded.snapshots = <<>>


(***************************************************************************)
(* The server (SpecServer): one call of validateAndSubmitRun, or one bare  *)
(* call of simulateRun, against a leaderboard collection.  simulateRun     *)
(* advances one loop iteration per step.                                   *)
(***************************************************************************)
\* eight presses and releases that fall between two frames
Taps(t) ==
    << Event(t + 1, 2), Event(t + 2, 7), Event(t + 3, 3), Event(t + 4, 8),
       Event(t + 5, 2), Event(t + 6, 7), Event(t + 7, 3), Event(t + 8, 8) >>

\* out along the start heading, a left turn of 1.318 s, back past the start
RoundTrip(turnAt) ==
    <<Event(0, 0), Event(turnAt, 2), Event(turnAt + 1318, 7)>> \o Taps(7000)

\* out, brake and reverse back to the start, then wait there
OutAndBack ==
    <<Event(0, 0), Event(1700, 5), Event(1701, 1), Event(4300, 6)>>
        \o SubSeq(Taps(4400), 1, 6)

\* backwards out, a left turn of 1.257 s, backwards past the start: no throttle
ReverseLap == <<Event(0, 1), Event(5000, 2), Event(6257, 7)>>

\* the round trip with event codes that name no key in between
Noisy ==
    <<Event(0, 0), Event(100, 12), Event(200, 255), Event(4650, 2), Event(4700, 10),
      Event(5968, 7)>> \o Taps(7000)

\* no throttle at all
NoThrottle == Taps(100) \o <<Event(900, 4), Event(1000, 9)>>

\* <<events, reportedTime>> of the bare simulateRun calls
SimulateCalls ==
    { <<RoundTrip(4650), 10000>>, <<RoundTrip(4650), 11100>>,
      <<RoundTrip(4650), 4000>>, <<RoundTrip(4620), 11000>>,
      <<OutAndBack, 5000>>, <<OutAndBack, 4500>>,
      <<NoThrottle, 0>>, <<NoThrottle, 1000>>,
      <<NoThrottle, 5000>>, <<ReverseLap, 10000>>, <<Noisy, 10000>> }

\* the bytes decodeEvents parses into evs: 16-bit time delta, event type
EventBytes(evs) ==
    [i \in 1..(3 * Len(evs)) |->
        LET j     == ((i - 1) \div 3) + 1
            delta == evs[j].time - (IF j = 1 THEN 0 ELSE evs[j - 1].time)
        IN  IF (i - 1) % 3 = 0 THEN delta \div 256
            ELSE IF (i - 1) % 3 = 1 THEN delta % 256
            ELSE evs[j].eventType]

Inputs(evs) == Btoa(encrypt(EventBytes(evs)))

Ace == <<65, 99, 101>>
LongName == [i \in 1..21 |-> 65]

\* a request that passes the basic validation and carries the checksum the
\* server computes
Honest(evs, time) ==
    Request(TRUE, Ace, TRUE, time, TRUE, Inputs(evs),
            ServerChecksum(decodeEvents(Inputs(evs)), time))

\* the same with the first checksum digit changed
Tampered(evs, time) ==
    [Honest(evs, time) EXCEPT !.checksum[1] = (@ + 1) % 16]

Requests ==
    { Honest(RoundTrip(4650), 10500),
      Honest(RoundTrip(4650), 11100),
      Honest(NoThrottle, 10000),
      Tampered(RoundTrip(4650), 10500),
      Tampered(NoThrottle, 10000),
      Honest(SubSeq(NoThrottle, 1, 9), 10000),
      [Honest(RoundTrip(4650), 10500) EXCEPT !.name = LongName],
      [Honest(RoundTrip(4650), 10500) EXCEPT !.name = <<>>],
      [Tampered(RoundTrip(4650), 10500) EXCEPT !.nameIsString = FALSE],
      [Tampered(RoundTrip(4650), 9999) EXCEPT !.time = 9999],
      [Honest(RoundTrip(4650), 10500) EXCEPT !.timeIsNumber = FALSE],
      [Honest(RoundTrip(4650), 10500) EXCEPT !.inputs = <<>>],
      [Honest(RoundTrip(4650), 10500) EXCEPT !.inputsIsString = FALSE,
                                             !.inputs = <<1, 2, 3>>] }

\* n documents with times first, first + gap, ..., written by a client for
\* the map 'default'
Board(n, first, gap) ==
    { Doc(i, Ace, first + gap * (i - 1), Inputs(NoThrottle),
          ServerChecksum(NoThrottle, first + gap * (i - 1)), "default", Undefined)
        : i \in 1..n }

Boards == { Board(0, 0, 0), Board(10, 10600, 100), Board(10, 10000, 50) }

\* the ids a new document can get
DocIds == 11..12

ServerInit ==
    /\ spc = "idle"
    /\ request = NoRequest
    /\ events = <<>>
    /\ reportedTime = 0
    /\ sim = SimInit
    /\ verdict = NoVerdict
    /\ docId = 0
    /\ log = <<>>
    /\ response = NoResponse
    /\ leaderboard \in Boards
    /\ CodecOff
    /\ ClientOff
    /\ RecorderOff
    /\ RestOff

\* a bare call simulateRun(evs, time): up to the loop
CallSimulate(evs, time) ==
    /\ spc = "idle"
    /\ spc' = "simulating"
    /\ events' = evs
    /\ reportedTime' = time
    /\ sim' = SimInit
    /\ log' = <<"simulate">>
    /\ UNCHANGED <<request, verdict, docId, response, leaderboard, codecVars, clientVars, recorderVars, restVars>>

\* validateAndSubmitRun(request): the basic validation, decodeEvents, the
\* event count and the checksum; then simulateRun up to its loop
Submit(req) ==
    /\ spc = "idle"
    /\ request' = req
    /\ LET basic == BasicValidation(req)
           early == IF basic # "" THEN basic ELSE EventValidation(req)
       IN  IF early # ""
           THEN /\ response' = IF early = DecodeThrows
                                THEN HttpsError("internal", ValidationFailed, <<>>)
                                ELSE HttpsError(InvalidArgument, early, <<>>)
                /\ spc' = "done"
                /\ UNCHANGED <<events, reportedTime, sim, log>>
           ELSE /\ spc' = "simulating"
                /\ events' = decodeEvents(req.inputs)
                /\ reportedTime' = req.time
                /\ sim' = SimInit
                /\ log' = <<"simulate">>
                /\ UNCHANGED response
    /\ UNCHANGED <<verdict, docId, leaderboard, codecVars, clientVars, recorderVars, restVars>>

\* one iteration of simulateRun's loop
SimulateFrame ==
    /\ spc = "simulating"
    /\ SimContinues(sim, reportedTime)
    /\ sim' = SimFrame(sim, events)
    /\ UNCHANGED <<spc, request, events, reportedTime, verdict, docId, log, response,
                   leaderboard, codecVars, clientVars, recorderVars, restVars>>

\* the loop has ended: simulateRun returns; validateAndSubmitRun throws on
\* an invalid simulation and goes on to the leaderboard query otherwise
SimulateReturn ==
    /\ spc = "simulating"
    /\ ~SimContinues(sim, reportedTime)
    /\ verdict' = Verdict(sim, reportedTime)
    /\ IF request = NoRequest
       THEN spc' = "done" /\ UNCHANGED response
       ELSE IF ~verdict'.valid
       THEN /\ spc' = "done"
            /\ response' = HttpsError(InvalidArgument, ValidationFailed, verdict'.errors)
       ELSE spc' = "topTen" /\ UNCHANGED response
    /\ UNCHANGED <<request, events, reportedTime, sim, docId, log, leaderboard,
                   codecVars, clientVars, recorderVars, restVars>>

\* topTen arrives: the qualification test
ReadTopTen ==
    /\ spc = "topTen"
    /\ log' = Append(log, "read")
    /\ IF Qualifies(Limit(OrderByTime(leaderboard), 10), request.time)
       THEN spc' = "add" /\ UNCHANGED response
       ELSE /\ spc' = "done"
            /\ response' = Returns(FALSE, 0, "Time does not qualify for top 10")
    /\ UNCHANGED <<request, events, reportedTime, sim, verdict, docId, leaderboard,
                   codecVars, clientVars, recorderVars, restVars>>

\* leaderboardRef.add(...) completes with a fresh document id
AddEntry(id) ==
    /\ spc = "add"
    /\ id \notin {d.id : d \in leaderboard}
    /\ leaderboard' = leaderboard \cup
           { Doc(id, IF request.name = <<>> THEN PlayerName ELSE request.name,
                 request.time, request.inputs, request.checksum, NoMap,
                 verdict.simulatedTime) }
    /\ docId' = id
    /\ log' = Append(log, "write")
    /\ spc' = "newTop"
    /\ UNCHANGED <<request, events, reportedTime, sim, verdict, response,
                   codecVars, clientVars, recorderVars, restVars>>

\* newTop arrives: the rank, the clean-up beyond ten entries, the result
ReadNewTop ==
    /\ spc = "newTop"
    /\ LET newTop == Limit(OrderByTime(leaderboard), 10)
           at     == {i \in 1..Len(newTop) : newTop[i].id = docId}
           rank   == IF at = {} THEN 0 ELSE CHOOSE i \in at : TRUE
           extra  == IF Len(newTop) > 10
                     THEN Limit(OrderByTimeDesc(leaderboard), Len(newTop) - 10)
                     ELSE <<>>
       IN  /\ leaderboard' = leaderboard \ {extra[i] : i \in 1..Len(extra)}
           /\ response' = Returns(TRUE, rank, "Rank on leaderboard")
    /\ log' = Append(log, "read")
    /\ spc' = "done"
    /\ UNCHANGED <<request, events, reportedTime, sim, verdict, docId,
                   codecVars, clientVars, recorderVars, restVars>>

\* a Firestore call of validateAndSubmitRun rejects: the catch block
FirestoreRejects ==
    /\ spc \in {"topTen", "add", "newTop"}
    /\ spc' = "done"
    /\ response' = HttpsError("internal", ValidationFailed, <<>>)
    /\ UNCHANGED <<request, events, reportedTime, sim, verdict, docId, log,
                   leaderboard, codecVars, clientVars, recorderVars, restVars>>

ServerNext ==
    \/ \E c \in SimulateCalls : CallSimulate(c[1], c[2])
    \/ \E req \in Requests : Submit(req)
    \/ SimulateFrame
    \/ SimulateReturn
    \/ ReadTopTen
    \/ \E id \in DocIds : AddEntry(id)
    \/ ReadNewTop
    \/ FirestoreRejects

SpecServer == ServerInit /\ [][ServerNext]_vars

(***************************************************************************)
(* Properties of simulateRun and validateAndSubmitRun (SpecServer).        *)
(***************************************************************************)
\* the time of frame k lies within reportedTime +/- 10% of reportedTime
WithinTenPercent(k, r) ==
    /\ ~(500 * k < 27 * r \/ (500 * k = 27 * r /\ DriftSign(k) < 0))
    /\ ~(500 * k > 33 * r \/ (500 * k = 33 * r /\ DriftSign(k) > 0))

\* C7: simulateRun returns valid = true exactly when the simulation reached
\* the finish condition at a simulated time below reportedTime + 5000 ms and
\* that time is within 10% of reportedTime of reportedTime; otherwise it
\* returns valid = false with a non-empty error list.
C7_Verdict ==
    verdict # NoVerdict =>
        /\ verdict.valid <=>
              /\ sim.finished
              /\ TimeLess(sim.finishFrame, reportedTime + 5000)
              /\ WithinTenPercent(sim.finishFrame, reportedTime)
        /\ ~verdict.valid => verdict.errors # <<>>

\* a run found valid whose simulated finish time is not the reported time
C7_Witness ==
    /\ verdict # NoVerdict
    /\ verdict.valid
    /\ 50 * sim.finishFrame # 3 * reportedTime

\* the request's checksum differs from the one the server computes
ChecksumDiffers ==
    /\ request # NoRequest
    /\ request.inputsIsString
    /\ request.checksum # ServerChecksum(decodeEvents(request.inputs), request.time)

\* the leaderboard as the qualification query saw it
BoardBeforeWrite == {d \in leaderboard : d.id # docId}

\* C8: a request whose checksum differs from the server's recomputation is
\* rejected with an invalid-argument error before any simulation and any
\* leaderboard read or write; its message differs from the one of a
\* rejection by the simulation; and an entry is written only after the field
\* checks, the event count, the checksum, the simulation verdict and the
\* top-10 qualification have passed, in that order.
C8_GateOrdering ==
    /\ ChecksumDiffers =>
          /\ response.kind = "error"
          /\ response.code = InvalidArgument
          /\ log = <<>>
          /\ response.message # ValidationFailed
          /\ (BasicValidation(request) = "" /\ Len(decodeEvents(request.inputs)) >= 10)
                => response.message = ChecksumMismatch
    /\ (response.kind = "error" /\ response.message = ValidationFailed
            /\ response.code = InvalidArgument)
          => (log = <<"simulate">> /\ ~verdict.valid /\ ~ChecksumDiffers)
    /\ (\E i \in 1..Len(log) : log[i] = "write") =>
          /\ BasicValidation(request) = ""
          /\ Len(events) >= 10
          /\ request.checksum = ServerChecksum(events, request.time)
          /\ verdict.valid
          /\ Qualifies(Limit(OrderByTime(BoardBeforeWrite), 10), request.time)
          /\ SubSeq(log, 1, 3) = <<"simulate", "read", "write">>

\* a request rejected for its checksum alone
C8_Witness ==
    /\ ChecksumDiffers
    /\ BasicValidation(request) = ""
    /\ response.message = ChecksumMismatch
    /\ log = <<>>

(***************************************************************************)
(* The client (SpecClient): one call of GhostManager.submitRun, with the   *)
(* awaited FirebaseService.submitRun advancing one Firestore call per step.*)
(***************************************************************************)
\* n samples 50 ms apart at 10 units per second along x
Cruise(n) ==
    [i \in 1..n |->
        Snap(SNAPSHOT_INTERVAL * (i - 1), 1234000 + 500000 * (i - 1), 34000000,
             -15708, 10000, 0)]

\* the same with a jump of 5 units at sample 30
Jump(n) ==
    [i \in 1..n |->
        IF i < 30 THEN Cruise(n)[i] ELSE [Cruise(n)[i] EXCEPT !.x = @ + 5000000]]

Recordings == { Cruise(50), Cruise(49), Jump(50) }

RunTimes == {9999, 10500, 11800, 13000}

CruiseData == encode(Cruise(50))

\* n stored runs with times first, first + gap, ..., the last `tied` of them
\* at the same time; timestamps 1..n
Stored(n, first, gap, tied) ==
    [i \in 1..n |->
        LET j == IF i > n - tied THEN n - tied + 1 ELSE i
        IN  PersonalEntry(first + gap * (j - 1), CruiseData,
                          generateChecksum(Cruise(50), first + gap * (j - 1)), i)]

PersonalLists == { <<>>, Stored(9, 11100, 100, 0), Stored(10, 10400, 200, 3) }

ClientBoards == { Board(0, 0, 0), Board(10, 10600, 100) }

ClientInit ==
    /\ cpc = "idle"
    /\ personalBests \in PersonalLists
    /\ storage = personalBests
    /\ initialized \in BOOLEAN
    /\ clock = 100
    /\ run = NoRun
    /\ result = NoResult
    /\ leaderboard \in ClientBoards
    /\ CodecOff
    /\ ServerOff
    /\ RecorderOff
    /\ RestOff

\* GhostManager.submitRun up to the await: validateClient, encode, the
\* personal list (push, sort, slice, save), and FirebaseService.submitRun's
\* initialization test.  saved: localStorage.setItem did not throw
SubmitRun(name, time, recording, saved) ==
    /\ cpc = "idle"
    /\ LET validation == validateClient(recording, time)
           data  == encode(recording)
           sum   == generateChecksum(recording, time)
           entry == PersonalEntry(time, data, sum, clock)
           kept  == PushSorted(personalBests, entry)
           rank  == RankByTimestamp(kept, clock)
           local == [NoRun EXCEPT !.accepted = TRUE, !.name = name, !.time = time,
                                  !.encoded = data, !.checksum = sum,
                                  !.timestamp = clock, !.before = personalBests,
                                  !.personalRank = rank,
                                  !.isPersonalBest = (rank = 1)]
       IN  IF ~validation.valid
           THEN /\ result' = Result(FALSE, validation.errors, 0, Null, FALSE)
                /\ cpc' = "done"
                /\ run' = [NoRun EXCEPT !.time = time]
                /\ UNCHANGED <<personalBests, storage>>
           ELSE /\ personalBests' = kept
                /\ storage' = IF saved THEN kept ELSE storage
                /\ IF initialized
                   THEN cpc' = "currentTop" /\ run' = local
                   ELSE /\ cpc' = "resume"
                        /\ run' = [local EXCEPT !.remote =
                               RemoteReturned(FALSE, 0, "Firebase not initialized")]
                /\ UNCHANGED result
    /\ UNCHANGED <<initialized, clock, leaderboard, codecVars, serverVars, recorderVars, restVars>>

\* currentTop = await this.fetchLeaderboard(mapId), [] when the query fails;
\* then the qualification test
FetchCurrentTop(ok) ==
    /\ cpc = "currentTop"
    /\ LET currentTop == IF ok THEN MapQuery(leaderboard, run.mapId) ELSE <<>>
       IN  IF Len(currentTop) >= 10 /\ run.time >= currentTop[Len(currentTop)].time
           THEN /\ cpc' = "resume"
                /\ run' = [run EXCEPT !.remote =
                       RemoteReturned(FALSE, 0, "Does not qualify for top 10")]
           ELSE cpc' = "addDoc" /\ UNCHANGED run
    /\ UNCHANGED <<personalBests, storage, initialized, clock, result, leaderboard,
                   codecVars, serverVars, recorderVars, restVars>>

\* docRef = await addDoc(...); a rejection is caught by submitRun's catch
AddDoc(ok, id) ==
    /\ cpc = "addDoc"
    /\ id \notin {d.id : d \in leaderboard}
    /\ IF ok
       THEN /\ leaderboard' = leaderboard \cup
                   { Doc(id, IF run.name = <<>> THEN PlayerName ELSE run.name,
                         run.time, run.encoded, run.checksum, run.mapId, Undefined) }
            /\ cpc' = "newTop"
            /\ UNCHANGED run
       ELSE /\ cpc' = "resume"
            /\ run' = [run EXCEPT !.remote = RemoteReturned(FALSE, 0, "e.message")]
            /\ UNCHANGED leaderboard
    /\ UNCHANGED <<personalBests, storage, initialized, clock, result,
                   codecVars, serverVars, recorderVars, restVars>>

\* newTop = await this.fetchLeaderboard(mapId); the clean-up beyond ten
\* entries; the rank; return { success: true, rank }
FetchNewTop(ok) ==
    /\ cpc = "newTop"
    /\ LET newTop == IF ok THEN MapQuery(leaderboard, run.mapId) ELSE <<>>
           slowest == Limit(OrderByTimeDesc({newTop[i] : i \in 1..Len(newTop)}),
                            IF Len(newTop) > 10 THEN Len(newTop) - 10 ELSE 0)
           rank == Cardinality({i \in 1..Len(newTop) : newTop[i].time < run.time}) + 1
       IN  /\ leaderboard' = leaderboard \ {slowest[i] : i \in 1..Len(slowest)}
           /\ run' = [run EXCEPT !.remote = RemoteReturned(TRUE, rank, "")]
    /\ cpc' = "resume"
    /\ UNCHANGED <<personalBests, storage, initialized, clock, result,
                   codecVars, serverVars, recorderVars, restVars>>

\* the awaited promise rejects: GhostManager.submitRun's catch (e)
RemoteThrows ==
    /\ cpc \in {"currentTop", "addDoc", "newTop"}
    /\ cpc' = "resume"
    /\ run' = [run EXCEPT !.remote = RemoteThrew]
    /\ UNCHANGED <<personalBests, storage, initialized, clock, result, leaderboard,
                   codecVars, serverVars, recorderVars, restVars>>

\* the return with success taken from the remote result
ResumeRemoteSuccess ==
    /\ cpc = "resume"
    /\ cpc' = "done"
    /\ result' = Result(run.remote.success, <<>>, run.personalRank,
                        IF run.remote.success THEN run.remote.rank ELSE Null,
                        run.isPersonalBest)
    /\ UNCHANGED <<personalBests, storage, initialized, clock, run, leaderboard,
                   codecVars, serverVars, recorderVars, restVars>>

\* GhostManager.submitRun after the await: globalRank, createGhostMeshes,
\* return { success: true, personalRank, globalRank, isPersonalBest }
Resume ==
    /\ cpc = "resume"
    /\ cpc' = "done"
    /\ result' = Result(TRUE, <<>>, run.personalRank,
                        IF run.remote.success THEN run.remote.rank ELSE Null,
                        run.isPersonalBest)
    /\ UNCHANGED <<personalBests, storage, initialized, clock, run, leaderboard,
                   codecVars, serverVars, recorderVars, restVars>>

ClientNext ==
    \/ \E name \in {<<>>, Ace}, time \in RunTimes, recording \in Recordings,
          saved \in BOOLEAN : SubmitRun(name, time, recording, saved)
    \/ \E ok \in BOOLEAN : FetchCurrentTop(ok)
    \/ \E ok \in BOOLEAN, id \in DocIds : AddDoc(ok, id)
    \/ \E ok \in BOOLEAN : FetchNewTop(ok)
    \/ RemoteThrows
    \/ Resume

SpecClient == ClientInit /\ [][ClientNext]_vars

\* C18: for every byte sequence b (the empty one and those longer than the
\* 16-byte key included) encrypt(b) has the length of b, encrypt(encrypt(b))
\* = b, decrypt(encrypt(b)) = b, and the server's XOR step in decodeEvents
\* gives b back from encrypt(b), also after the trip through base64 text
\* (b: every stream stored undamaged, its text a multiple of four long).
C18_ObfuscationInvolution ==
    (pc = "encoded" /\ Len(encoded) % 4 = 0) =>
        LET b == stream
            e == encrypt(b)
        IN  /\ Len(e) = Len(b)
            /\ encrypt(e) = b
            /\ decrypt(e) = b
            /\ XorDecrypt(e) = b
            /\ encoded = Btoa(e)
            /\ XorDecrypt(BufferFromBase64(encoded)) = b

\* a stored stream longer than the key that the obfuscation changes
C18_Witness ==
    /\ pc = "encoded"
    /\ Len(stream) > Len(ENCRYPT_KEY)
    /\ encoded = Btoa(encrypt(stream))
    /\ encrypt(stream) # stream
    /\ XorDecrypt(BufferFromBase64(encoded)) = stream

(***************************************************************************)
(* Properties of GhostManager.submitRun (SpecClient).                      *)
(***************************************************************************)
LocallyAccepted == cpc = "done" /\ run.accepted

\* the entry the call pushed
Pushed == PersonalEntry(run.time, run.encoded, run.checksum, run.timestamp)

Kept == \E i \in 1..Len(personalBests) : personalBests[i] = Pushed

\* how many of the runs stored before the call have a time of at most t
AtOrBelow(t) == Cardinality({i \in 1..Len(run.before) : run.before[i].time <= t})

\* how many of them have a time below t
Below(t) == Cardinality({i \in 1..Len(run.before) : run.before[i].time < t})

RemoteFailed == ~(run.remote.state = "returned" /\ run.remote.success)

\* C10 as stated: whenever validateClient accepts the run, submitRun returns
\* success = true and, if the run's time is among the ten lowest local times
\* (fewer than ten stored runs are strictly faster), the run is kept in
\* personalBests, whatever the remote call did; globalRank is null exactly
\* on remote failure.
C10_AsStated ==
    LocallyAccepted =>
        /\ result.success
        /\ Below(run.time) < 10 => Kept
        /\ result.globalRank = Null <=> RemoteFailed

\* C10, amended: whenever validateClient accepts the run, submitRun returns
\* success = true and keeps the run in personalBests if fewer than ten
\* stored runs have a time lower than or equal to its time, whatever the
\* remote call did (returned success, returned failure, did not qualify,
\* threw); personalRank and isPersonalBest depend on the local list alone,
\* and globalRank is null exactly when the remote call did not succeed.
C10_LocalAcceptance ==
    LocallyAccepted =>
        /\ result.success
        /\ AtOrBelow(run.time) < 10 => Kept
        /\ result.personalRank = RankByTimestamp(PushSorted(run.before, Pushed),
                                                 run.timestamp)
        /\ result.isPersonalBest <=> (AtOrBelow(run.time) = 0)
        /\ result.globalRank = Null <=> RemoteFailed
        /\ ~RemoteFailed => result.globalRank = run.remote.rank

\* a run accepted and kept as the tenth of a full local list, the remote
\* call having thrown
C10_Witness ==
    /\ LocallyAccepted
    /\ run.remote.state = "threw"
    /\ Len(run.before) = 10
    /\ Kept
    /\ result.personalRank > 1


\* the inputs of a submitRun call that validateClient refuses
Refused(time, recording) == ~validateClient(recording, time).valid

\* the reason a refused call of the sample inputs is refused for
Reason(time, recording) ==
    IF Len(recording) < 50 THEN "Recording too short"
    ELSE IF time < 10000 THEN "Impossible completion time"
    ELSE "Teleportation detected"

\* C11: when validateClient returns valid = false, submitRun returns
\* success = false with a non-empty errors list whose first element is the
\* reason, leaves personalBests, the local storage and the remote
\* leaderboard as they were, and makes no remote call (the call is over,
\* with the remote outcome still pending).
C11_RejectionBlocksSubmission ==
    [][\A name \in {<<>>, Ace}, time \in RunTimes, recording \in Recordings,
          saved \in BOOLEAN :
          (SubmitRun(name, time, recording, saved) /\ Refused(time, recording)) =>
              /\ ~result'.success
              /\ result'.errors # <<>>
              /\ result'.errors[1] = Reason(time, recording)
              /\ personalBests' = personalBests
              /\ storage' = storage
              /\ leaderboard' = leaderboard
              /\ cpc' = "done"
              /\ run'.remote = RemotePending]_vars

\* a run with a 5-unit jump refused while the personal list holds runs
C11_Witness ==
    /\ cpc = "done"
    /\ ~run.accepted
    /\ result = Result(FALSE, <<"Teleportation detected">>, 0, Null, FALSE)
    /\ Len(personalBests) = 10
    /\ leaderboard # {}


\* the stored entries of one track
TrackEntries(map) == {d \in leaderboard : d.mapID = map}

\* C13 as stated: once a submission is completed the store holds at most
\* ten entries per track (an eleventh entry makes the slowest one go).
C13_AsStated ==
    cpc = "done" => \A map \in {d.mapID : d \in leaderboard} :
                        Cardinality(TrackEntries(map)) <= 10


(***************************************************************************)
(* simulateRun's error list (SpecServer).                                  *)
(***************************************************************************)
Names(error) == \E i \in 1..Len(verdict.errors) : verdict.errors[i] = error

\* C20 as stated: when simulateRun rejects, its error list holds the
\* did-not-finish reason exactly when the simulation never reached the
\* finish condition, and the time-mismatch reason exactly when the
\* simulation finished at a time more than 10% away from the declared time.
C20_AsStated ==
    (verdict # NoVerdict /\ ~verdict.valid) =>
        /\ Names(NotCompleted) <=> ~sim.finished
        /\ Names(Mismatch) <=>
              (sim.finished /\ ~WithinTenPercent(sim.finishFrame, reportedTime))


(***************************************************************************)
(* A recording handed to validateClient and generateChecksum               *)
(* (SpecRecording): samples 50 ms apart after one or two irregular ones.   *)
(***************************************************************************)
MaxSamples == 52

\* 3 units beyond the prediction in 50 ms; 5 units in no time; a sample
\* 50 ms back in time; a second sample at the same instant and place
Fast == Move(SNAPSHOT_INTERVAL, 3000000, 0, 0, 0, 0)
Leap == Move(0, 5000000, 0, 0, 0, 0)
Rewind == Move(-SNAPSHOT_INTERVAL, 0, 0, 0, 0, 0)
Pause == Move(0, 0, 0, 0, 0, 0)

RecordMoves == { Steady, Fast, Leap, Rewind, Pause }

ValidateTimes == {9999, 10000}

\* changes of Math.round(x * 100) of one sample
Deltas == {1, -1, 31, 65536}

RecordingInit ==
    /\ snapshots \in {<<s>> : s \in Starts}
    /\ pc = "record"
    /\ finalTime = 0
    /\ encoded = <<>>
    /\ checksum = NoChecksum
    /\ decoded = NoOutcome
    /\ serverChecksum = NoChecksum
    /\ stream = <<>>
    /\ chunks = 0
    /\ ServerOff
    /\ ClientOff
    /\ leaderboard = {}
    /\ RecorderOff
    /\ RestOff

Record(m) ==
    /\ pc = "record"
    /\ Len(snapshots) < MaxSamples
    /\ m = Steady \/ Len(snapshots) <= MaxVar
    /\ snapshots' = Append(snapshots, NextSnap(Last(snapshots), m))
    /\ UNCHANGED <<pc, finalTime, encoded, checksum, decoded, serverChecksum, stream, chunks,
                   serverVars, clientVars, leaderboard, recorderVars, restVars>>

\* validation = this.recorder.validateClient(snapshots, time)
Validate(t) ==
    /\ pc = "record"
    /\ pc' = "validated"
    /\ finalTime' = t
    /\ validated' = validateClient(snapshots, t)
    /\ UNCHANGED <<snapshots, encoded, checksum, decoded, serverChecksum, stream, chunks,
                   serverVars, clientVars, leaderboard, altered, ghost, lerp, encoder, restVars>>

\* checksum = this.recorder.generateChecksum(snapshots, time)
Checksum(t) ==
    /\ pc = "record"
    /\ pc' = "summed"
    /\ finalTime' = t
    /\ checksum' = generateChecksum(snapshots, t)
    /\ UNCHANGED <<snapshots, encoded, decoded, serverChecksum, stream, chunks,
                   serverVars, clientVars, leaderboard, recorderVars, restVars>>

\* sample i with its x moved by d hundredths
WithX(snaps, i, d) == [snaps EXCEPT ![i].x = @ + d * (PosDen \div POSITION_PRECISION)]

\* generateChecksum on the same samples and time but for the x of sample i
Alter(i, d) ==
    /\ pc = "summed"
    /\ i \in 1..Len(snapshots)
    /\ pc' = "altered"
    /\ altered' = [index |-> i, delta |-> d,
                   checksum |-> generateChecksum(WithX(snapshots, i, d), finalTime)]
    /\ UNCHANGED <<snapshots, finalTime, encoded, checksum, decoded, serverChecksum, stream,
                   chunks, serverVars, clientVars, leaderboard, validated, ghost, lerp, encoder, restVars>>

RecordingNext ==
    \/ \E m \in RecordMoves : Record(m)
    \/ \E t \in ValidateTimes : Validate(t)
    \/ Checksum(10000)
    \/ \E i \in {1, Len(snapshots)}, d \in Deltas : Alter(i, d)

SpecRecording == RecordingInit /\ [][RecordingNext]_vars


(***************************************************************************)
(* Properties of validateClient and generateChecksum (SpecRecording).      *)
(***************************************************************************)
\* sample i is earlier than sample i - 1
TimeInverted(i) == snapshots[i].time < snapshots[i - 1].time

\* the distance between samples i - 1 and i divided by the time between them
\* is above 50 units per second; a move in no time is above any speed
ImpliedSpeedOver(i) ==
    LET dx == snapshots[i].x - snapshots[i - 1].x
        dz == snapshots[i].z - snapshots[i - 1].z
        ms == snapshots[i].time - snapshots[i - 1].time
    IN  IF ms = 0 THEN dx # 0 \/ dz # 0
        ELSE ms > 0 /\ SpeedOver(dx, dz, ms)

\* C12 as stated: validateClient returns valid = false whenever the sequence
\* has fewer than 50 samples, or finalTime < 10000, or a consecutive pair has
\* decreasing time, or a consecutive pair implies a speed above 50 units per
\* second (a position jump in zero elapsed time included); it returns
\* valid = true with an empty errors list otherwise.
C12_AsStated ==
    pc = "validated" =>
        /\ validated.valid <=>
              ~ \/ Len(snapshots) < 50
                \/ finalTime < 10000
                \/ \E i \in 2..Len(snapshots) : TimeInverted(i)
                \/ \E i \in 2..Len(snapshots) : ImpliedSpeedOver(i)
        /\ validated.valid => validated.errors = <<>>


\* C19: changing Math.round(x * 100) of exactly one sample by a non-zero
\* amount, everything else the same, changes the value generateChecksum
\* returns; the same samples and time give the same result, 8 hexadecimal
\* digits long.
C19_ChecksumSensitivity ==
    pc = "altered" =>
        LET changed == WithX(snapshots, altered.index, altered.delta)
        IN  /\ QuantPos(changed[altered.index].x)
                  = QuantPos(snapshots[altered.index].x) + altered.delta
            /\ \A j \in 1..Len(snapshots) :
                  j # altered.index => changed[j] = snapshots[j]
            /\ altered.delta # 0
            /\ altered.checksum # checksum
            /\ generateChecksum(snapshots, finalTime) = checksum
            /\ Len(checksum) = 8
            /\ Len(altered.checksum) = 8
            /\ \A k \in 1..8 : checksum[k] \in 0..15 /\ altered.checksum[k] \in 0..15

\* the first of at least 50 samples moved by 655.36 units
C19_Witness ==
    /\ pc = "altered"
    /\ Len(snapshots) >= 50
    /\ altered.index = 1
    /\ altered.delta = 65536
    /\ altered.checksum # checksum


(***************************************************************************)
(* encode's loop, one iteration at a time, on recordings of straight       *)
(* motion at constant velocity, 50 ms apart (SpecEncoder).                 *)
(***************************************************************************)
MaxStraight == 1000

Straight(s, n) ==
    [i \in 1..n |->
        Snap(s.time + SNAPSHOT_INTERVAL * (i - 1),
             Predict(s.x, s.vx, SNAPSHOT_INTERVAL * (i - 1)),
             Predict(s.z, s.vz, SNAPSHOT_INTERVAL * (i - 1)),
             s.rotY, s.vx, s.vz)]

StraightLengths == {1, 2, 20, 21, 61, MaxStraight}

\* a drive with straights, turns, late samples, two samples at one instant
\* and a one-second gap, the moves of Winding taken in turn
Turn == Move(SNAPSHOT_INTERVAL, 20000, -14000, 500, -300, 304)
Late == Move(2 * SNAPSHOT_INTERVAL, 0, 0, 0, 0, 0)
Drift == Move(SNAPSHOT_INTERVAL, 0, 0, 4, 0, 0)
Gap == Move(KEYFRAME_INTERVAL, 0, 0, -500, 0, 0)

Winding ==
    << Steady, Steady, Turn, Turn, Steady, Late, Drift, Steady, Turn, Pause, Steady,
       Steady, Turn, Gap, Turn, Steady, Steady, Steady, Steady, Steady, Steady >>

MaxDrive == 45

RECURSIVE Drive(_, _)
Drive(s, n) ==
    IF n = 1 THEN <<s>>
    ELSE LET q == Drive(s, n - 1)
         IN  Append(q, NextSnap(q[n - 1], Winding[((n - 2) % Len(Winding)) + 1]))

DriveLengths == {4, 15, 30, MaxDrive}

EncoderInit ==
    /\ snapshots \in { Straight(s, n) : s \in Starts, n \in StraightLengths }
                     \cup { Drive(s, n) : s \in Starts, n \in DriveLengths }
    /\ pc = "encoding"
    /\ finalTime = 0
    /\ encoded = <<>>
    /\ checksum = NoChecksum
    /\ decoded = NoOutcome
    /\ serverChecksum = NoChecksum
    /\ stream = <<>>
    /\ chunks = 0
    /\ ServerOff
    /\ ClientOff
    /\ leaderboard = {}
    /\ RecorderOff
    /\ RestOff

\* one iteration of for (let i = 0; i < snapshots.length; i++)
EncodeSample ==
    /\ pc = "encoding"
    /\ encoder.i <= Len(snapshots)
    /\ encoder' = [EncodeStep(encoder, snapshots[encoder.i], encoder.i) EXCEPT !.i = @ + 1]
    /\ UNCHANGED <<snapshots, pc, finalTime, encoded, checksum, decoded, serverChecksum,
                   stream, chunks, serverVars, clientVars, leaderboard,
                   validated, altered, ghost, lerp, restVars>>

\* after the loop: the flushes, serializeFrames, encrypt, btoa
EncodeFinish ==
    /\ pc = "encoding"
    /\ encoder.i > Len(snapshots)
    /\ pc' = "encoded"
    /\ stream' = serializeFrames(FlushDeltas(FlushRun(encoder)).frames)
    /\ encoded' = Btoa(encrypt(stream'))
    /\ UNCHANGED <<snapshots, finalTime, checksum, decoded, serverChecksum, chunks,
                   serverVars, clientVars, leaderboard, recorderVars, restVars>>

EncoderNext ==
    \/ EncodeSample
    \/ EncodeFinish

SpecEncoder == EncoderInit /\ [][EncoderNext]_vars


(***************************************************************************)
(* Properties of encode on straight motion (SpecEncoder).                  *)
(***************************************************************************)
\* every sample is the one before moved on by 50 ms at its velocity
ConstantVelocity(snaps) ==
    \A i \in 2..Len(snaps) : snaps[i] = NextSnap(snaps[i - 1], Steady)

\* C14 as stated: encoding N samples of straight motion at constant velocity,
\* 50 ms apart, gives a byte stream under 50 bytes, whatever N is (N = 1000
\* included).
C14_AsStated ==
    (pc = "encoded" /\ ConstantVelocity(snapshots)) => Len(stream) < 50


(***************************************************************************)
(* A ghost replayed by GhostManager.update, and calls of lerpAngle         *)
(* (SpecGhost).                                                            *)
(***************************************************************************)
\* seven samples, three of them at 50 ms and two at 120 ms
Repeats ==
    << Snap(0, 0, 0, 0, 10000, 0),
       Snap(50, 500000, 0, 100, 10000, 0),
       Snap(50, 600000, 0, 200, 10000, 0),
       Snap(50, 700000, 100000, 300, 10000, 2000),
       Snap(120, 1400000, 200000, 400, 10000, 2000),
       Snap(120, 1300000, 300000, 500, -10000, 2000),
       Snap(200, 500000, 500000, 600, -10000, 2000) >>

\* one sample; two samples at the same time; four samples with uneven gaps,
\* a bend and the heading crossing the seam at pi; five samples 50 ms apart;
\* samples that share their times
GhostRuns ==
    { Repeats,
      << Snap(100, 1000000, 2000000, 5000, 10000, 0) >>,
      << Snap(100, 1000000, 2000000, 5000, 10000, 0),
         Snap(100, 1500000, 2000000, 6000, 10000, 0) >>,
      << Snap(100, 0, 0, 30000, 10000, 0),
         Snap(150, 500000, 100000, -30000, 20000, 2000),
         Snap(200, 1500000, 100000, -31000, 2000, 0),
         Snap(260, 1600000, -300000, 31000, 0, -7000) >>,
      << Snap(0, 0, 0, 0, 3000, 4000),
         Snap(50, 150000, 200000, 100, 3000, 4000),
         Snap(100, 300000, 400000, 300, 3000, 4000),
         Snap(150, 450000, 600000, 600, 3000, 4000),
         Snap(200, 600000, 800000, 1000, 3000, 4000) >> }

RaceTimes == {-10, 0, 25, 50, 90, 100, 120, 150, 175, 200, 230, 260, 300}

\* headings in [-pi, pi] on the grid of the samples, and fractions in [0, 1]
Headings == {-31415, -30000, -15708, -1, 0, 1, 15708, 30000, 31415}
Fractions == { <<0, 1>>, <<1, 4>>, <<1, 2>>, <<3, 4>>, <<1, 1>> }

GhostInit ==
    /\ ghost \in { [NoGhost EXCEPT !.snapshots = r] : r \in GhostRuns \cup {<<>>} }
    /\ validated = NoValidation
    /\ altered = NoAltered
    /\ lerp = NoLerp
    /\ encoder = EncodeInit
    /\ CodecOff
    /\ ServerOff
    /\ ClientOff
    /\ leaderboard = {}
    /\ RestOff

\* GhostManager.update(raceTime), for the one ghost
Update(raceTime) ==
    /\ IF Len(ghost.snapshots) = 0 \/ ghost.finished
       THEN ghost' = [ghost EXCEPT !.visible = FALSE, !.called = FALSE]
       ELSE LET state == getStateAtTime(ghost.snapshots, raceTime)
            IN  ghost' = [ghost EXCEPT !.time = raceTime, !.called = TRUE,
                                       !.state = state,
                                       !.visible = ~state.isNull,
                                       !.finished = state.isNull]
    /\ UNCHANGED <<codecVars, serverVars, clientVars, leaderboard,
                   validated, altered, lerp, encoder, restVars>>

\* ghostRecorder.lerpAngle(a, b, t) with t = f[1] / f[2]; one call
\* is made in a behaviour
LerpAngle(a, b, f) ==
    /\ ~lerp.called
    /\ lerp' = [a |-> a * (AngleDen \div RotDen), b |-> b * (AngleDen \div RotDen),
                num |-> f[1], den |-> f[2], called |-> TRUE,
                value |-> lerpAngle(a * (AngleDen \div RotDen),
                                    b * (AngleDen \div RotDen), f[1], f[2])]
    /\ UNCHANGED <<codecVars, serverVars, clientVars, leaderboard,
                   validated, altered, ghost, encoder, restVars>>

GhostNext ==
    \/ \E raceTime \in RaceTimes : Update(raceTime)
    \/ \E a \in Headings, b \in Headings, f \in Fractions : LerpAngle(a, b, f)

SpecGhost == GhostInit /\ [][GhostNext]_vars


(***************************************************************************)
(* Properties of getStateAtTime and lerpAngle (SpecGhost).                 *)
(***************************************************************************)
FirstSample == ghost.snapshots[1]
LastSample == ghost.snapshots[Len(ghost.snapshots)]

\* the state returned has the place and heading of the stored sample snap
SameAs(snap) ==
    /\ ~ghost.state.isNull
    /\ ghost.state.x = snap.x
    /\ ghost.state.z = snap.z
    /\ ghost.state.rotY = snap.rotY * (AngleDen \div RotDen)

StrictlyIncreasing(snaps) ==
    \A i \in 2..Len(snaps) : snaps[i - 1].time < snaps[i].time

\* C15 as stated: for every non-empty sample sequence (a single sample and
\* coinciding first and last times included) getStateAtTime returns the
\* first sample for every t before the first sample's time, and null for
\* every t at or after the last sample's time.
C15_AsStated ==
    ghost.called =>
        /\ ghost.time < FirstSample.time => ghost.state = StoredState(FirstSample)
        /\ ghost.time >= LastSample.time => ghost.state.isNull

\* C16 as stated: for every sample k of a sequence with strictly increasing
\* times, getStateAtTime at that sample's time returns a state whose x, z and
\* heading are those of sample k.
C16_AsStated ==
    (ghost.called /\ StrictlyIncreasing(ghost.snapshots)) =>
        \A k \in 1..Len(ghost.snapshots) :
            ghost.time = ghost.snapshots[k].time => SameAs(ghost.snapshots[k])

\* C16, amended: for every sample k but the last of a sequence with strictly
\* increasing times (and for the only sample of a one-sample sequence),
\* getStateAtTime at that sample's time returns a state whose x, z and
\* heading are those of sample k; at the time of the last of two or more
\* samples it returns null.
C16_OnSampleInstant ==
    (ghost.called /\ StrictlyIncreasing(ghost.snapshots)) =>
        \A k \in 1..Len(ghost.snapshots) :
            ghost.time = ghost.snapshots[k].time =>
                IF k < Len(ghost.snapshots) \/ k = 1
                THEN SameAs(ghost.snapshots[k])
                ELSE ghost.state.isNull

\* the third of four samples met by the search, with an interpolated state
C16_Witness ==
    /\ ghost.called
    /\ Len(ghost.snapshots) = 4
    /\ StrictlyIncreasing(ghost.snapshots)
    /\ ghost.time = ghost.snapshots[3].time
    /\ ~ghost.state.stored
    /\ SameAs(ghost.snapshots[3])

Between(v, p, q) == (p <= v /\ v <= q) \/ (q <= v /\ v <= p)

\* C17: for headings a and b in [-pi, pi] and a fraction t in [0, 1],
\* lerpAngle(a, b, t) lies between a and lerpAngle(a, b, 1), which is b or b
\* plus or minus 2 pi and at most pi away from a; lerpAngle(a, b, 0) = a;
\* from 3.0 to -3.0 every value is at or above 3.0 (never 0) and the end is
\* beyond pi.
C17_HeadingWrap ==
    lerp.called =>
        LET full == lerpAngle(lerp.a, lerp.b, 1, 1)
        IN  /\ Abs(full - lerp.a) <= MathPi
            /\ full - lerp.b \in {0, TwoMathPi, -TwoMathPi}
            /\ Between(lerp.value, lerp.a, full)
            /\ lerp.num = 0 => lerp.value = lerp.a
            /\ lerp.num = lerp.den => lerp.value = full
            /\ (lerp.a = 3 * AngleDen /\ lerp.b = -3 * AngleDen) =>
                   /\ lerp.value >= 3 * AngleDen
                   /\ full > MathPi
                   /\ full < 4 * AngleDen

\* half way from 3.0 to -3.0: pi
C17_Witness ==
    /\ lerp.called
    /\ lerp.a = 3 * AngleDen
    /\ lerp.b = -3 * AngleDen
    /\ lerp.num = 1
    /\ lerp.den = 2
    /\ lerp.value = MathPi


\* the timeline has no forward-down event
NoForwardDown(evs) == \A i \in 1..Len(evs) : evs[i].eventType # 0

\* C21 as stated: for every timeline without a forward-down event and every
\* declared time, simulateRun never sets finished and the run is rejected
\* with the did-not-finish reason.
C21_AsStated ==
    (verdict # NoVerdict /\ NoForwardDown(events)) =>
        /\ ~sim.finished
        /\ ~verdict.valid
        /\ Names(NotCompleted)


(***************************************************************************)
(* simulateRun's loop and finish check (SpecServer).                       *)
(***************************************************************************)
\* ceil((reportedTime + 5000) / stepMs), stepMs being 1000 / 60
StepBound(ms) == (3 * (ms + 5000) + 49) \div 50

\* what a step of the server does to simulateRun's variables: hasLeftStart
\* stays set; finished is set exactly at a step that started with
\* hasLeftStart, ended under the finish radius and has a time above 5000 ms,
\* with finishTime the time of that step; nothing moves once finished is set
FinishSteps ==
    spc = "simulating" =>
        /\ sim.hasLeftStart => sim'.hasLeftStart
        /\ (sim'.finished /\ ~sim.finished) =>
               /\ sim.hasLeftStart
               /\ DistLess(sim', finishRadius)
               /\ TimeGreater(sim.k, 5000)
               /\ sim'.finishFrame = sim.k
        /\ (/\ sim'.k = sim.k + 1
            /\ sim'.hasLeftStart
            /\ DistLess(sim', finishRadius)
            /\ TimeGreater(sim.k, 5000)) => sim'.finished
        /\ sim.finished => sim' = sim

OrderedByTime == \A j \in 2..Len(events) : events[j - 1].time <= events[j].time

\* the events whose time is at most the simulated time of the step to come
UpToNow == {j \in 1..Len(events) : ~TimeLess(sim.k, events[j].time)}

\* the latest event up to now for the key pressed by code down is a press
Pressed(down) ==
    LET mine == {j \in UpToNow : events[j].eventType \in {down, down + 5}}
    IN  /\ mine # {}
        /\ events[CHOOSE j \in mine : \A i \in mine : i <= j].eventType = down

\* C25: for events ordered by time and the simulated time of any step,
\* getInputAtTime reports a flag as pressed exactly when the latest event for
\* that flag at or before that time is a down event; a flag without such an
\* event is released; codes outside 0..9 change no flag.
C25_InputHold ==
    (spc = "simulating" /\ OrderedByTime) =>
        getInputAtTime(events, sim.k) =
            [forward |-> Pressed(0), backward |-> Pressed(1), left |-> Pressed(2),
             right |-> Pressed(3), handbrake |-> Pressed(4)]

\* forward held, left pressed and released, a later press still to come, and
\* codes 10, 12 and 255 passed
C25_Witness ==
    /\ spc = "simulating"
    /\ OrderedByTime
    /\ getInputAtTime(events, sim.k).forward
    /\ ~getInputAtTime(events, sim.k).left
    /\ \E j \in UpToNow : events[j].eventType = 7
    /\ \E j \in UpToNow : events[j].eventType = 10
    /\ \E j \in 1..Len(events) : j \notin UpToNow /\ events[j].eventType = 2

(***************************************************************************)
(* The varints (SpecVarInt): one value written after what a byte array     *)
(* already holds, then read back from the offset where it starts.          *)
(***************************************************************************)
VarIntSpan == 130

UnsignedValues ==
    (0..VarIntSpan) \cup {16383, 16384, 2^21 - 1, 2^21, 2^28 - 1, 2^28, Two30, MaxInt32}

SignedValues ==
    ((-VarIntSpan)..VarIntSpan) \cup
    {8191, -8192, 8192, 2^29, -(2^29), Two30 - 1, Two30, Two30 + 1, -Two30, (-Two30) - 1,
     MaxInt32, MinInt32 + 1, MinInt32}

Prefixes == {<<>>, <<255, 1>>}

VarIntInit ==
    /\ varint = [NoVarInt EXCEPT !.phase = "idle"]
    /\ CodecOff
    /\ ServerOff
    /\ ClientOff
    /\ leaderboard = {}
    /\ RecorderOff
    /\ UiOff
    /\ MapOff

\* this.writeVarInt(bytes, value)
WriteVarInt(prefix, value) ==
    /\ varint.phase = "idle"
    /\ varint' = [varint EXCEPT !.phase = "written", !.signed = FALSE, !.value = value,
                                !.bytes = prefix \o writeVarInt(value),
                                !.start = Len(prefix)]
    /\ UNCHANGED <<codecVars, serverVars, clientVars, leaderboard, recorderVars,
                   uiVars, mapVars>>

\* this.writeSignedVarInt(bytes, value)
WriteSignedVarInt(prefix, value) ==
    /\ varint.phase = "idle"
    /\ varint' = [varint EXCEPT !.phase = "written", !.signed = TRUE, !.value = value,
                                !.bytes = prefix \o writeSignedVarInt(value),
                                !.start = Len(prefix)]
    /\ UNCHANGED <<codecVars, serverVars, clientVars, leaderboard, recorderVars,
                   uiVars, mapVars>>

\* this.readVarInt(bytes, offset) with offset.pos where the value starts
ReadVarInt ==
    /\ varint.phase = "written"
    /\ ~varint.signed
    /\ LET r == readVarInt(varint.bytes, varint.start)
       IN  varint' = [varint EXCEPT !.phase = "read", !.read = r.value, !.pos = r.pos]
    /\ UNCHANGED <<codecVars, serverVars, clientVars, leaderboard, recorderVars,
                   uiVars, mapVars>>

\* this.readSignedVarInt(bytes, offset)
ReadSignedVarInt ==
    /\ varint.phase = "written"
    /\ varint.signed
    /\ LET r == readSignedVarInt(varint.bytes, varint.start)
       IN  varint' = [varint EXCEPT !.phase = "read", !.read = r.value, !.pos = r.pos]
    /\ UNCHANGED <<codecVars, serverVars, clientVars, leaderboard, recorderVars,
                   uiVars, mapVars>>

VarIntNext ==
    \/ \E prefix \in Prefixes, value \in UnsignedValues : WriteVarInt(prefix, value)
    \/ \E prefix \in Prefixes, value \in SignedValues : WriteSignedVarInt(prefix, value)
    \/ ReadVarInt
    \/ ReadSignedVarInt

SpecVarInt == VarIntInit /\ [][VarIntNext]_vars

\* C23: an unsigned value below 2^31 is read back as written, with the offset
\* moved past exactly the bytes written; every signed 32-bit value is read
\* back as written; a signed value in -64..63 takes one byte.
C23_AsStated ==
    varint.phase = "read" =>
        /\ ~varint.signed =>
              /\ varint.read = varint.value
              /\ varint.pos = Len(varint.bytes)
        /\ varint.signed => varint.read = varint.value
        /\ (varint.signed /\ varint.value \in (-64)..63) =>
              Len(varint.bytes) - varint.start = 1

(***************************************************************************)
(* The search of getStateAtTime (SpecGhost).                               *)
(***************************************************************************)
Found == Bracket(ghost.snapshots, ghost.time)
\* the call just made had a time strictly between the first and the last
\* sample's time, on samples with non-decreasing times
Inside ==
    /\ ghost.called
    /\ Len(ghost.snapshots) > 0
    /\ NonDecreasing(ghost.snapshots)
    /\ FirstSample.time < ghost.time
    /\ ghost.time < LastSample.time

\* C27: for samples with non-decreasing times (equal times allowed) and a time
\* strictly between the first and the last sample's time, the search ends
\* with high = low + 1 and samples[low].time <= t < samples[high].time, so
\* the denominator is positive, the fraction is in [0, 1) and the state
\* returned lies between the two samples.
C27_SearchBrackets ==
    Inside =>
        /\ Found.high = Found.low + 1
        /\ ghost.snapshots[Found.low].time <= ghost.time
        /\ ghost.time < ghost.snapshots[Found.high].time
        /\ ghost.snapshots[Found.high].time - ghost.snapshots[Found.low].time > 0
        /\ ~ghost.state.isNull /\ ~ghost.state.stored
        /\ ghost.state.time = ghost.time
        /\ Between(ghost.state.x, ghost.snapshots[Found.low].x,
                   ghost.snapshots[Found.high].x)
        /\ Between(ghost.state.z, ghost.snapshots[Found.low].z,
                   ghost.snapshots[Found.high].z)
        /\ (ghost.time = ghost.snapshots[Found.low].time =>
               /\ ghost.state.x = ghost.snapshots[Found.low].x
               /\ ghost.state.z = ghost.snapshots[Found.low].z)

\* a call at a time that three samples share, answered from the last of them
C27_Witness ==
    /\ Inside
    /\ ghost.snapshots = Repeats
    /\ ghost.time = 50
    /\ Found.low = 4
    /\ ghost.state.x = 700000

(***************************************************************************)
(* The times of a decoded recording (SpecCodec).                           *)
(***************************************************************************)
\* consecutive times at least SNAPSHOT_INTERVAL apart, as recordFrame leaves them
Spaced(snaps) ==
    \A i \in 2..Len(snaps) : snaps[i].time - snaps[i - 1].time >= SNAPSHOT_INTERVAL

KeyIndices(snaps) == {i \in 1..Len(snaps) : LastKeyIndex(snaps, i) = i}

\* C28: for samples whose consecutive times differ by at least 50 ms, the
\* times of decode(encode(samples)) are strictly increasing, and the time of a
\* decoded sample that is not a keyframe does not exceed the time of the
\* keyframe that follows it.
C28_TimelineOrdered ==
    (RoundTripDone /\ Spaced(snapshots)) =>
        /\ Len(decoded.snapshots) = Len(snapshots)
        /\ \A i \in 2..Len(decoded.snapshots) :
              decoded.snapshots[i - 1].time < decoded.snapshots[i].time
        /\ \A k \in KeyIndices(snapshots) : \A i \in 1..(k - 1) :
              i \notin KeyIndices(snapshots) =>
                  decoded.snapshots[i].time <= decoded.snapshots[k].time

\* a decoded recording with a gap of 100 ms early on: the samples after the
\* gap come out 50 ms early, and the keyframe at 1000 ms follows them
C28_Witness ==
    /\ pc = "decoded"
    /\ Spaced(snapshots)
    /\ ~Nominal(snapshots)
    /\ KeyIndices(snapshots) = {1, 20}
    /\ snapshots[19].time = 950
    /\ decoded.snapshots[19].time = 900
    /\ decoded.snapshots[20].time = 1000
    /\ Len(decoded.snapshots) = 21

(***************************************************************************)
(* Where encode puts its keyframes (SpecEncoder).                          *)
(***************************************************************************)
KeyFramesOf(frames) == SelectSeq(frames, LAMBDA f : f.type = "key")

RECURSIVE CoveredBy(_)
\* how many samples the run and delta frames of a frame list stand for
CoveredBy(frames) ==
    IF frames = <<>> THEN 0
    ELSE LET f == frames[Len(frames)]
             n == IF f.type = "run" THEN f.count
                  ELSE IF f.type = "deltas" THEN Len(f.deltas) ELSE 0
         IN  n + CoveredBy(SubSeq(frames, 1, Len(frames) - 1))

\* the samples taken so far that are no keyframes: in frames, or pending
Covered(st) == CoveredBy(st.frames) + st.runLength + Len(st.pendingResiduals)

\* sample i is due as a keyframe, by the keyframes in the frames so far
DueAsKey(st) ==
    \/ st.i = 1
    \/ snapshots[st.i].time - Last(KeyFramesOf(st.frames)).snap.time >= KEYFRAME_INTERVAL

KeyframeStep ==
    (pc = "encoding" /\ encoder'.i = encoder.i + 1) =>
        /\ DueAsKey(encoder) =>
              /\ encoder'.frames # <<>>
              /\ Last(encoder'.frames) = KeyFrame(snapshots[encoder.i])
              /\ Len(KeyFramesOf(encoder'.frames)) = Len(KeyFramesOf(encoder.frames)) + 1
              /\ Covered(encoder') = Covered(encoder)
              /\ encoder'.runLength = 0
              /\ encoder'.pendingResiduals = <<>>
        /\ ~DueAsKey(encoder) =>
              /\ KeyFramesOf(encoder'.frames) = KeyFramesOf(encoder.frames)
              /\ Covered(encoder') = Covered(encoder) + 1
              /\ \/ encoder'.runLength = encoder.runLength + 1
                 \/ Len(encoder'.pendingResiduals) = Len(encoder.pendingResiduals) + 1

KeyframesApart ==
    LET keys == KeyFramesOf(encoder.frames)
    IN  /\ ~(encoder.runLength > 0 /\ Len(encoder.pendingResiduals) > 0)
        /\ \A k \in 2..Len(keys) :
              keys[k].snap.time - keys[k - 1].snap.time >= KEYFRAME_INTERVAL
        /\ Len(keys) + Covered(encoder) = encoder.i - 1
        /\ pc = "encoded" =>
              CoveredBy(FlushDeltas(FlushRun(encoder)).frames) = Covered(encoder)

\* C24: for samples with non-decreasing times, encode makes sample i a keyframe
\* if and only if i = 0 or its time is at least 1000 ms after the most recent
\* keyframe's time; every other sample is counted in exactly one run frame or
\* is one tuple of one delta frame; a pending run and a pending delta batch
\* are never both non-empty; consecutive keyframes are at least 1000 ms apart.
C24_KeyframePlacement ==
    /\ [][NonDecreasing(snapshots) => KeyframeStep]_vars
    /\ [](NonDecreasing(snapshots) => KeyframesApart)

\* an encoded drive with four keyframes, the second one forced by a gap
\* while a delta batch was pending, with runs and delta batches around them
C24_Witness ==
    /\ pc = "encoded"
    /\ Len(snapshots) = MaxDrive
    /\ Len(KeyFramesOf(encoder.frames)) = 4
    /\ \E k \in 2..Len(encoder.frames) :
          encoder.frames[k].type = "key" /\ encoder.frames[k - 1].type = "deltas"
    /\ \E k \in 2..Len(encoder.frames) :
          encoder.frames[k].type = "key" /\ encoder.frames[k - 1].type = "run"
    /\ \E k \in 2..Len(encoder.frames) :
          encoder.frames[k].type = "run" /\ encoder.frames[k - 1].type = "deltas"

(***************************************************************************)
(* Maps and the global leaderboard (SpecMap): Game.switchMap,              *)
(* GhostManager.initForMap and fetchGlobalLeaderboard, whose responses     *)
(* arrive in any order, and createGhostMeshes.                             *)
(***************************************************************************)
MapIds == {"main", "oval", "canyon"}

Bea == <<66, 101, 97>>
Cy == <<67, 121>>

\* stored entries: three on main, two on oval (one with an empty blob), none
\* on canyon
MapBoard ==
    { Doc(1, Ace, 10600, encode(Cruise(2)), <<>>, "main", Undefined),
      Doc(2, Ace, 10400, encode(Cruise(3)), <<>>, "main", Undefined),
      Doc(3, Cy, 12000, encode(Cruise(2)), <<>>, "main", Undefined),
      Doc(4, Bea, 11000, encode(Cruise(2)), <<>>, "oval", Undefined),
      Doc(5, Bea, 10100, <<>>, <<>>, "oval", Undefined) }

\* firebaseEntries.map(entry => ({ name, time, data, timestamp, id })), then
\* sort((a, b) => a.time - b.time)
GlobalEntries(docs) ==
    SortByTime([i \in 1..Len(docs) |->
        [name |-> docs[i].name, time |-> docs[i].time, data |-> docs[i].inputs,
         id |-> docs[i].id]])

\* createGhostMeshes: the first maxGhosts entries whose data decode to a
\* non-empty list
maxGhosts == 5

GhostOf(ghostData) ==
    [name |-> ghostData.name, time |-> ghostData.time,
     snapshots |-> decode(ghostData.data).snapshots, finished |-> FALSE]

Decoded(g) == Len(g.snapshots) > 0

GhostsMade(ghostsToShow) == [i \in 1..Len(ghostsToShow) |-> GhostOf(ghostsToShow[i])]

GhostsOf(list) == SelectSeq(GhostsMade(Limit(list, maxGhosts)), Decoded)

MaxFetches == 2

\* after Game's constructor: the track of 'main' built, initForMap('main')
\* called, its fetch under way
MapInit ==
    /\ currentMapId = "main"
    /\ track = "main"
    /\ mapId = "main"
    /\ globalLeaderboard = <<>>
    /\ fetches = <<"main">>
    /\ ghosts = <<>>
    /\ leaderboard = MapBoard
    /\ cpc = "off"
    /\ personalBests = <<>>
    /\ storage = [m \in MapIds |-> IF m = "oval" THEN Stored(2, 11100, 100, 0) ELSE <<>>]
    /\ initialized = TRUE
    /\ clock = 100
    /\ run = NoRun
    /\ result = NoResult
    /\ CodecOff
    /\ ServerOff
    /\ RecorderOff
    /\ VarIntOff
    /\ UiOff

\* Game.switchMap(mapId) with GhostManager.initForMap: mapId, the personal
\* bests of the map from localStorage, and fetchGlobalLeaderboard up to its
\* await
SwitchMap(m) ==
    /\ Len(fetches) < MaxFetches
    /\ IF m = currentMapId /\ track # NoTrack
       THEN UNCHANGED <<currentMapId, track, mapId, personalBests, fetches>>
       ELSE /\ currentMapId' = m
            /\ track' = m
            /\ mapId' = m
            /\ personalBests' = storage[m]
            /\ fetches' = Append(fetches, m)
    /\ UNCHANGED <<globalLeaderboard, ghosts, cpc, storage, initialized, clock, run, result,
                   leaderboard, codecVars, serverVars, recorderVars, varint, uiVars>>

\* the response of the k-th fetch under way arrives, [] when the query
\* failed: globalLeaderboard is replaced and sorted
DeliverLeaderboard(k, ok) ==
    /\ k \in 1..Len(fetches)
    /\ LET firebaseEntries ==
               IF ok /\ initialized THEN MapQuery(leaderboard, fetches[k]) ELSE <<>>
       IN  globalLeaderboard' = GlobalEntries(firebaseEntries)
    /\ fetches' = SubSeq(fetches, 1, k - 1) \o SubSeq(fetches, k + 1, Len(fetches))
    /\ UNCHANGED <<currentMapId, track, mapId, ghosts, clientVars, leaderboard,
                   codecVars, serverVars, recorderVars, varint, uiVars>>

\* GhostManager.startGhosts, at the start of a race: createGhostMeshes
StartGhosts ==
    /\ ghosts' = GhostsOf(globalLeaderboard)
    /\ UNCHANGED <<currentMapId, track, mapId, globalLeaderboard, fetches, clientVars,
                   leaderboard, codecVars, serverVars, recorderVars, varint, uiVars>>

MapNext ==
    \/ \E m \in MapIds : SwitchMap(m)
    \/ \E k \in 1..MaxFetches, ok \in BOOLEAN : DeliverLeaderboard(k, ok)
    \/ StartGhosts

SpecMap == MapInit /\ [][MapNext]_vars

\* the ids of the stored entries of the map the ghost manager is set to
CurrentIds == {d.id : d \in {e \in leaderboard : e.mapID = mapId}}
CurrentRuns == {<<d.name, d.time>> : d \in {e \in leaderboard : e.mapID = mapId}}

\* C30: after any sequence of initForMap and switchMap calls, once every
\* fetchGlobalLeaderboard response has been delivered, in any order,
\* globalLeaderboard (and the ghosts built from it from then on) holds
\* entries of the current map only, never those of a map selected before.
C30_AsStated ==
    fetches = <<>> =>
        /\ mapId = currentMapId
        /\ \A i \in 1..Len(globalLeaderboard) : globalLeaderboard[i].id \in CurrentIds

(***************************************************************************)
(* The name screen (SpecUI): Game.finishRace shows it, Enter or the submit *)
(* button calls UIManager.submitCurrentRun, Escape skipSubmission.  A call *)
(* of submitCurrentRun that has to wait for Firestore stays in invocations *)
(* and goes on when the response is there; key presses come in between.    *)
(***************************************************************************)
\* String.prototype.trim, for spaces
Trim(name) ==
    LET inked == {i \in 1..Len(name) : name[i] # 32}
    IN  IF inked = {} THEN <<>>
        ELSE SubSeq(name, CHOOSE i \in inked : \A j \in inked : i <= j,
                          CHOOSE i \in inked : \A j \in inked : j <= i)

Padded == <<32>> \o Ace \o <<32>>

TypedNames == {Padded, LongName}

\* the runs a race ends with: one that validateClient accepts, one too short
FinishedRuns == { <<10500, Cruise(50)>>, <<9999, Cruise(50)>> }

\* n entries on 'main', written by the client path: the blobs are recordings
MainBoard(n, first, gap) ==
    { Doc(i, Ace, first + gap * (i - 1), encode(Cruise(3)), <<>>, "main", Undefined)
        : i \in 1..n }

UiBoards == { MainBoard(0, 0, 0), MainBoard(2, 10400, 200) }

MaxInvocations == 2

\* races finished and calls made, counted by the clock
MaxTicks == 3

\* a call of submitCurrentRun: where it is, the race whose run it took from
\* pendingRun, the locals of its submitRun calls, the id of the entry added
Invocation(position, race, locals) ==
    [pc |-> position, race |-> race, run |-> locals, doc |-> 0]

UiInit ==
    /\ playerNameInput = <<>>
    /\ savedPlayerName = <<>>
    /\ pendingRun = NoPendingRun
    /\ nameScreen = FALSE
    /\ finishScreen = FALSE
    /\ invocations = <<>>
    /\ currentMapId = "main"
    /\ track = "main"
    /\ mapId = "main"
    /\ globalLeaderboard = <<>>
    /\ fetches = <<>>
    /\ ghosts = <<>>
    /\ leaderboard \in UiBoards
    /\ cpc = "off"
    /\ personalBests = <<>>
    /\ storage = [m \in MapIds |-> <<>>]
    /\ initialized \in BOOLEAN
    /\ clock = 100
    /\ run = NoRun
    /\ result = NoResult
    /\ CodecOff
    /\ ServerOff
    /\ RecorderOff
    /\ VarIntOff

\* Game.finishRace: ui.showNameInputScreen(raceTime, inputFrames); the race is
\* on when neither screen is shown
FinishRace(r) ==
    /\ ~nameScreen /\ ~finishScreen
    /\ Len(invocations) < MaxInvocations
    /\ clock < 100 + MaxTicks
    /\ pendingRun' = [time |-> r[1], snapshots |-> r[2], race |-> clock]
    /\ nameScreen' = TRUE
    /\ playerNameInput' = savedPlayerName
    /\ clock' = clock + 1
    /\ UNCHANGED <<savedPlayerName, finishScreen, invocations, cpc, personalBests, storage,
                   initialized, run, result, leaderboard, mapVars,
                   codecVars, serverVars, recorderVars, varint>>

\* the player edits the name field, once while the name screen is shown
TypeName(name) ==
    /\ nameScreen
    /\ playerNameInput = savedPlayerName
    /\ playerNameInput # name
    /\ playerNameInput' = name
    /\ UNCHANGED <<savedPlayerName, pendingRun, nameScreen, finishScreen, invocations,
                   clientVars, leaderboard, mapVars,
                   codecVars, serverVars, recorderVars, varint>>

\* what follows the await in submitCurrentRun: the name screen goes, the
\* finish screen shows this.pendingRun.time, pendingRun is cleared; reading
\* .time of null throws
AfterAwait ==
    /\ nameScreen' = FALSE
    /\ IF pendingRun = NoPendingRun
       THEN UNCHANGED <<finishScreen, pendingRun>>
       ELSE finishScreen' = TRUE /\ pendingRun' = NoPendingRun

\* UIManager.submitCurrentRun with GhostManager.submitRun up to its await on
\* firebaseService.submitRun; when nothing has to be waited for (the run is
\* refused, or Firebase is not initialized) the call runs to its end; both
\* localStorage.setItem calls succeed
SubmitCurrentRun ==
    /\ nameScreen
    /\ Len(invocations) < MaxInvocations
    /\ IF pendingRun = NoPendingRun
       THEN UNCHANGED <<uiVars, personalBests, storage, ghosts>>
       ELSE LET typed == Trim(playerNameInput)
                name  == IF typed = <<>> THEN PlayerName ELSE typed
                check == validateClient(pendingRun.snapshots, pendingRun.time)
                data  == encode(pendingRun.snapshots)
                sum   == generateChecksum(pendingRun.snapshots, pendingRun.time)
                entry == PersonalEntry(pendingRun.time, data, sum, clock)
                kept  == PushSorted(personalBests, entry)
                rank  == RankByTimestamp(kept, clock)
                local == [NoRun EXCEPT !.accepted = TRUE, !.name = name,
                                       !.time = pendingRun.time, !.encoded = data,
                                       !.checksum = sum, !.timestamp = clock,
                                       !.before = personalBests, !.personalRank = rank,
                                       !.isPersonalBest = (rank = 1), !.mapId = mapId]
            IN  /\ savedPlayerName' = name
                /\ UNCHANGED playerNameInput
                /\ IF ~check.valid
                   THEN /\ invocations' = Append(invocations,
                               Invocation("done", pendingRun.race,
                                          [NoRun EXCEPT !.name = name,
                                                        !.time = pendingRun.time]))
                        /\ AfterAwait
                        /\ UNCHANGED <<personalBests, storage, ghosts>>
                   ELSE /\ personalBests' = kept
                        /\ storage' = [storage EXCEPT ![mapId] = kept]
                        /\ IF initialized
                           THEN /\ invocations' = Append(invocations,
                                       Invocation("currentTop", pendingRun.race, local))
                                /\ UNCHANGED <<pendingRun, nameScreen, finishScreen, ghosts>>
                           ELSE /\ invocations' = Append(invocations,
                                       Invocation("done", pendingRun.race,
                                           [local EXCEPT !.remote = RemoteReturned(
                                               FALSE, 0, "Firebase not initialized")]))
                                /\ ghosts' = GhostsOf(globalLeaderboard)
                                /\ AfterAwait
    /\ clock' = clock + 1
    /\ UNCHANGED <<cpc, initialized, run, result, leaderboard,
                   currentMapId, track, mapId, globalLeaderboard, fetches,
                   codecVars, serverVars, recorderVars, varint>>

\* UIManager.skipSubmission (Escape on the name screen)
SkipSubmission ==
    /\ nameScreen
    /\ IF pendingRun # NoPendingRun
       THEN nameScreen' = FALSE /\ finishScreen' = TRUE /\ pendingRun' = NoPendingRun
       ELSE UNCHANGED <<nameScreen, finishScreen, pendingRun>>
    /\ UNCHANGED <<playerNameInput, savedPlayerName, invocations, clientVars, leaderboard,
                   mapVars, codecVars, serverVars, recorderVars, varint>>

\* Space on the finish screen: hideFinishScreen and game.resetRace
HideFinishScreen ==
    /\ finishScreen /\ ~nameScreen
    /\ finishScreen' = FALSE
    /\ UNCHANGED <<playerNameInput, savedPlayerName, pendingRun, nameScreen, invocations,
                   clientVars, leaderboard, mapVars,
                   codecVars, serverVars, recorderVars, varint>>

\* FirebaseService.submitRun of call k: currentTop = await fetchLeaderboard,
\* [] when the query fails; then the qualification test
UiFetchCurrentTop(k, ok) ==
    /\ k \in 1..Len(invocations)
    /\ invocations[k].pc = "currentTop"
    /\ LET mine == invocations[k].run
           currentTop == IF ok THEN MapQuery(leaderboard, mine.mapId) ELSE <<>>
       IN  invocations' = [invocations EXCEPT ![k] =
               IF Len(currentTop) >= 10 /\ mine.time >= currentTop[Len(currentTop)].time
               THEN [@ EXCEPT !.pc = "resume",
                              !.run.remote = RemoteReturned(FALSE, 0,
                                                 "Does not qualify for top 10")]
               ELSE [@ EXCEPT !.pc = "addDoc"]]
    /\ UNCHANGED <<playerNameInput, savedPlayerName, pendingRun, nameScreen, finishScreen,
                   clientVars, leaderboard, mapVars,
                   codecVars, serverVars, recorderVars, varint>>

\* docRef = await addDoc(...) of call k; a rejection is caught
UiAddDoc(k, ok, id) ==
    /\ k \in 1..Len(invocations)
    /\ invocations[k].pc = "addDoc"
    /\ id \notin {d.id : d \in leaderboard}
    /\ LET mine == invocations[k].run
       IN  IF ok
           THEN /\ leaderboard' = leaderboard \cup
                       { Doc(id, IF mine.name = <<>> THEN PlayerName ELSE mine.name,
                             mine.time, mine.encoded, mine.checksum, mine.mapId,
                             Undefined) }
                /\ invocations' = [invocations EXCEPT ![k].pc = "newTop", ![k].doc = id]
           ELSE /\ invocations' = [invocations EXCEPT ![k].pc = "resume",
                       ![k].run.remote = RemoteReturned(FALSE, 0, "e.message")]
                /\ UNCHANGED leaderboard
    /\ UNCHANGED <<playerNameInput, savedPlayerName, pendingRun, nameScreen, finishScreen,
                   clientVars, mapVars, codecVars, serverVars, recorderVars, varint>>

\* newTop = await fetchLeaderboard of call k, the clean-up beyond ten
\* entries, the rank
UiFetchNewTop(k, ok) ==
    /\ k \in 1..Len(invocations)
    /\ invocations[k].pc = "newTop"
    /\ LET mine == invocations[k].run
           newTop == IF ok THEN MapQuery(leaderboard, mine.mapId) ELSE <<>>
           slowest == Limit(OrderByTimeDesc({newTop[i] : i \in 1..Len(newTop)}),
                            IF Len(newTop) > 10 THEN Len(newTop) - 10 ELSE 0)
           rank == Cardinality({i \in 1..Len(newTop) : newTop[i].time < mine.time}) + 1
       IN  /\ leaderboard' = leaderboard \ {slowest[i] : i \in 1..Len(slowest)}
           /\ invocations' = [invocations EXCEPT ![k].pc = "resume",
                                  ![k].run.remote = RemoteReturned(TRUE, rank, "")]
    /\ UNCHANGED <<playerNameInput, savedPlayerName, pendingRun, nameScreen, finishScreen,
                   clientVars, mapVars, codecVars, serverVars, recorderVars, varint>>

\* call k goes on after its await: GhostManager.submitRun starts a fetch of
\* the global leaderboard when the entry was added, builds the ghosts and
\* returns; submitCurrentRun hides the name screen and reads this.pendingRun
UiResume(k) ==
    /\ k \in 1..Len(invocations)
    /\ invocations[k].pc = "resume"
    /\ fetches' = IF invocations[k].run.remote.success THEN Append(fetches, mapId)
                  ELSE fetches
    /\ ghosts' = GhostsOf(globalLeaderboard)
    /\ AfterAwait
    /\ invocations' = [invocations EXCEPT ![k].pc =
                           IF pendingRun = NoPendingRun THEN "threw" ELSE "done"]
    /\ UNCHANGED <<playerNameInput, savedPlayerName, clientVars, leaderboard,
                   currentMapId, track, mapId, globalLeaderboard,
                   codecVars, serverVars, recorderVars, varint>>

\* the id Firestore gives the next document: 11, 12, ...
NextDocId == 11 + Cardinality({d \in leaderboard : d.id > 10})

UiNext ==
    \/ \E r \in FinishedRuns : FinishRace(r)
    \/ \E name \in TypedNames : TypeName(name)
    \/ SubmitCurrentRun
    \/ SkipSubmission
    \/ HideFinishScreen
    \/ \E k \in 1..MaxInvocations : UiFetchCurrentTop(k, TRUE)
    \/ \E k \in 1..MaxInvocations, ok \in BOOLEAN : UiAddDoc(k, ok, NextDocId)
    \/ \E k \in 1..MaxInvocations : UiFetchNewTop(k, TRUE)
    \/ \E k \in 1..MaxInvocations : UiResume(k)
    \/ \E k \in 1..MaxInvocations : DeliverLeaderboard(k, TRUE)

SpecUI == UiInit /\ [][UiNext]_vars

\* the calls of submitCurrentRun that took the run of one race and had it
\* accepted, and the entries they left
AcceptedFor(race) ==
    {k \in 1..Len(invocations) : invocations[k].race = race /\ invocations[k].run.accepted}

Races == {invocations[k].race : k \in 1..Len(invocations)}

\* C29: when submitCurrentRun is called again while an earlier call for the
\* same pending run is awaiting GhostManager.submitRun, the run is not
\* submitted a second time (no second personal best, no second leaderboard
\* entry), and no call reads pendingRun after another call cleared it.
C29_AsStated ==
    /\ \A race \in Races :
          /\ Cardinality(AcceptedFor(race)) <= 1
          /\ Cardinality({invocations[k].doc : k \in AcceptedFor(race)} \ {0}) <= 1
    /\ \A k \in 1..Len(invocations) : invocations[k].pc # "threw"

\* C22: every leaderboard entry written to the store, by the server function
\* or by the client path from submitCurrentRun, has a name of at most 20
\* characters.
C22_AsStated == \A d \in leaderboard : Len(d.name) <= 20

====
